---- MODULE Spec2Model ----
(***************************************************************************)
(* Model of the resume screening core: clean_text (preprocessing.py),      *)
(* extract_skills / analyze_resume_quality / get_quality_label            *)
(* (skill_extractor.py),                                                   *)
(* build_tfidf_matrix, compute_cosine_similarity, rank_candidates,         *)
(* detect_duplicates, get_top_recommendations (ranking_model.py) and the   *)
(* older compute_similarity (similarity_model.py).                         *)
(*                                                                         *)
(* A text is a sequence of one-character strings.  Numbers are fixed       *)
(* point: a similarity is an integer number of 1e-5 before rounding and of *)
(* 1e-4 after round(x, 4); a quality score is an integer number of tenths. *)
(***************************************************************************)
EXTENDS Integers, Sequences, FiniteSets, TLC

VARIABLES
    job_description,  \* argument: the raw job description text
    resumes,          \* argument: sequence of [name, text]
    nltk_ok,          \* environment: stopword data and tokenizer load without error
    pc,               \* "start", or which call has completed and how
    threshold,        \* argument of detect_duplicates (units of 1e-5)
    top_n,            \* argument of get_top_recommendations
    sorted_index,     \* the frame's index after sort_values, before reset_index
    results_df,       \* value returned by rank_candidates / compute_similarity
    duplicates,       \* value returned by detect_duplicates
    recommendations,  \* value returned by get_top_recommendations
    resume_text,      \* argument of extract_skills / analyze_resume_quality
    found_skills,     \* value returned by extract_skills
    quality_result,   \* value returned by analyze_resume_quality
    quality_score,    \* argument of get_quality_label (tenths)
    quality_label,    \* value returned by get_quality_label
    cleaned_text,     \* value returned by clean_text
    uploaded_files,   \* app: the uploaded files, sequence of [name, text]
    calls,            \* app: the functions the analyze flow has called, in order
    first_fitted      \* session history: the vocabulary that the first
                      \* build_tfidf_matrix call of the session fitted, {} before

text_vars == <<resume_text, found_skills, quality_result, quality_score,
               quality_label, cleaned_text>>

rank_vars == <<job_description, resumes, nltk_ok, threshold, top_n,
               sorted_index, results_df, duplicates, recommendations>>

flow_vars == <<uploaded_files, calls, first_fitted>>

vars == <<job_description, resumes, nltk_ok, pc, threshold, top_n,
          sorted_index, results_df, duplicates, recommendations,
          resume_text, found_skills, quality_result, quality_score,
          quality_label, cleaned_text, uploaded_files, calls, first_fitted>>

(***************************************************************************)
(* Characters                                                              *)
(***************************************************************************)
LowerLetters == <<"a","b","c","d","e","f","g","h","i","j","k","l","m",
                  "n","o","p","q","r","s","t","u","v","w","x","y","z">>
UpperLetters == <<"A","B","C","D","E","F","G","H","I","J","K","L","M",
                  "N","O","P","Q","R","S","T","U","V","W","X","Y","Z">>
Digits == {"0","1","2","3","4","5","6","7","8","9"}

Range(s) == {s[i] : i \in DOMAIN s}

\* Python's None where a text is expected: no sequence of characters
None == <<"None">>

\* "if not text": the empty string and None
Falsy(text) == text = <<>> \/ text = None

IsLetter(c) == c \in Range(LowerLetters) \cup Range(UpperLetters)
IsDigit(c)  == c \in Digits
\* regex \w and \s on the characters of the modelled texts
IsWordChar(c) == IsLetter(c) \/ IsDigit(c) \/ c = "_"
IsSpace(c)    == c \in {" ", "\t", "\n"}

\* str.lower() on one character
ToLower(c) ==
    IF c \in Range(UpperLetters)
    THEN LowerLetters[CHOOSE i \in DOMAIN UpperLetters : UpperLetters[i] = c]
    ELSE c

Lower(s) == [i \in DOMAIN s |-> ToLower(s[i])]

\* end of the run of non-whitespace characters that starts at i (i - 1 if none)
RECURSIVE RunEnd(_, _)
RunEnd(s, i) ==
    IF i > Len(s) \/ IsSpace(s[i]) THEN i - 1 ELSE RunEnd(s, i + 1)

StartsWithAt(s, i, w) ==
    /\ i + Len(w) - 1 <= Len(s)
    /\ \A k \in 1..Len(w) : s[i + k - 1] = w[k]

\* text.strip()
RECURSIVE Strip(_)
Strip(s) ==
    IF s = <<>> THEN s
    ELSE IF IsSpace(Head(s)) THEN Strip(Tail(s))
    ELSE IF IsSpace(s[Len(s)]) THEN Strip(SubSeq(s, 1, Len(s) - 1))
    ELSE s

\* ' '.join(tokens)
RECURSIVE Join(_)
Join(tokens) ==
    IF tokens = <<>> THEN <<>>
    ELSE IF Len(tokens) = 1 THEN tokens[1]
    ELSE tokens[1] \o <<" ">> \o Join(Tail(tokens))

\* text.split(): the maximal runs of non-whitespace characters
RECURSIVE SplitFrom(_, _)
SplitFrom(s, i) ==
    IF i > Len(s) THEN <<>>
    ELSE IF IsSpace(s[i]) THEN SplitFrom(s, i + 1)
    ELSE <<SubSeq(s, i, RunEnd(s, i))>> \o SplitFrom(s, RunEnd(s, i) + 1)

Split(s) == SplitFrom(s, 1)

(***************************************************************************)
(* preprocessing.clean_text                                                *)
(***************************************************************************)
\* Step 2: re.sub(r'http\S+|www\S+|https\S+', '', text)
RECURSIVE RemoveUrlsFrom(_, _)
RemoveUrlsFrom(s, i) ==
    IF i > Len(s) THEN <<>>
    ELSE IF \/ /\ StartsWithAt(s, i, <<"h","t","t","p">>)
               /\ i + 4 <= Len(s) /\ ~IsSpace(s[i + 4])
            \/ /\ StartsWithAt(s, i, <<"w","w","w">>)
               /\ i + 3 <= Len(s) /\ ~IsSpace(s[i + 3])
         THEN RemoveUrlsFrom(s, RunEnd(s, i) + 1)
         ELSE <<s[i]>> \o RemoveUrlsFrom(s, i + 1)

RemoveUrls(s) == RemoveUrlsFrom(s, 1)

\* Step 3: re.sub(r'\S+@\S+', '', text): a run of non-whitespace is deleted
\* when an '@' stands in it with a character before and a character after
RECURSIVE RemoveEmailsFrom(_, _)
RemoveEmailsFrom(s, i) ==
    IF i > Len(s) THEN <<>>
    ELSE IF IsSpace(s[i]) THEN <<s[i]>> \o RemoveEmailsFrom(s, i + 1)
    ELSE LET e == RunEnd(s, i)
         IN  IF \E k \in (i + 1)..(e - 1) : s[k] = "@"
             THEN RemoveEmailsFrom(s, e + 1)
             ELSE SubSeq(s, i, e) \o RemoveEmailsFrom(s, e + 1)

RemoveEmails(s) == RemoveEmailsFrom(s, 1)

\* Step 4: re.sub(r'[^a-z0-9\s\+\-\#]', ' ', text)
KeptChar(c) ==
    \/ c \in Range(LowerLetters)
    \/ IsDigit(c)
    \/ IsSpace(c)
    \/ c \in {"+", "-", "#"}

RemoveSpecial(s) == [i \in DOMAIN s |-> IF KeptChar(s[i]) THEN s[i] ELSE " "]

\* Step 5: re.sub(r'\s+', ' ', text).strip()
RECURSIVE CollapseFrom(_, _)
CollapseFrom(s, i) ==
    IF i > Len(s) THEN <<>>
    ELSE IF IsSpace(s[i])
         THEN IF i > 1 /\ IsSpace(s[i - 1])
              THEN CollapseFrom(s, i + 1)
              ELSE <<" ">> \o CollapseFrom(s, i + 1)
         ELSE <<s[i]>> \o CollapseFrom(s, i + 1)

CollapseWhitespace(s) == Strip(CollapseFrom(s, 1))

\* nltk.corpus.stopwords.words('english')
StopWords == {
    <<"i">>, <<"m","e">>, <<"m","y">>, <<"m","y","s","e","l","f">>,
    <<"w","e">>, <<"o","u","r">>, <<"o","u","r","s">>,
    <<"o","u","r","s","e","l","v","e","s">>, <<"y","o","u">>,
    <<"y","o","u","'","r","e">>, <<"y","o","u","'","v","e">>,
    <<"y","o","u","'","l","l">>, <<"y","o","u","'","d">>,
    <<"y","o","u","r">>, <<"y","o","u","r","s">>,
    <<"y","o","u","r","s","e","l","f">>,
    <<"y","o","u","r","s","e","l","v","e","s">>, <<"h","e">>,
    <<"h","i","m">>, <<"h","i","s">>, <<"h","i","m","s","e","l","f">>,
    <<"s","h","e">>, <<"s","h","e","'","s">>, <<"h","e","r">>,
    <<"h","e","r","s">>, <<"h","e","r","s","e","l","f">>, <<"i","t">>,
    <<"i","t","'","s">>, <<"i","t","s">>, <<"i","t","s","e","l","f">>,
    <<"t","h","e","y">>, <<"t","h","e","m">>, <<"t","h","e","i","r">>,
    <<"t","h","e","i","r","s">>, <<"t","h","e","m","s","e","l","v","e","s">>,
    <<"w","h","a","t">>, <<"w","h","i","c","h">>, <<"w","h","o">>,
    <<"w","h","o","m">>, <<"t","h","i","s">>, <<"t","h","a","t">>,
    <<"t","h","a","t","'","l","l">>, <<"t","h","e","s","e">>,
    <<"t","h","o","s","e">>, <<"a","m">>, <<"i","s">>, <<"a","r","e">>,
    <<"w","a","s">>, <<"w","e","r","e">>, <<"b","e">>, <<"b","e","e","n">>,
    <<"b","e","i","n","g">>, <<"h","a","v","e">>, <<"h","a","s">>,
    <<"h","a","d">>, <<"h","a","v","i","n","g">>, <<"d","o">>,
    <<"d","o","e","s">>, <<"d","i","d">>, <<"d","o","i","n","g">>, <<"a">>,
    <<"a","n">>, <<"t","h","e">>, <<"a","n","d">>, <<"b","u","t">>,
    <<"i","f">>, <<"o","r">>, <<"b","e","c","a","u","s","e">>, <<"a","s">>,
    <<"u","n","t","i","l">>, <<"w","h","i","l","e">>, <<"o","f">>,
    <<"a","t">>, <<"b","y">>, <<"f","o","r">>, <<"w","i","t","h">>,
    <<"a","b","o","u","t">>, <<"a","g","a","i","n","s","t">>,
    <<"b","e","t","w","e","e","n">>, <<"i","n","t","o">>,
    <<"t","h","r","o","u","g","h">>, <<"d","u","r","i","n","g">>,
    <<"b","e","f","o","r","e">>, <<"a","f","t","e","r">>,
    <<"a","b","o","v","e">>, <<"b","e","l","o","w">>, <<"t","o">>,
    <<"f","r","o","m">>, <<"u","p">>, <<"d","o","w","n">>, <<"i","n">>,
    <<"o","u","t">>, <<"o","n">>, <<"o","f","f">>, <<"o","v","e","r">>,
    <<"u","n","d","e","r">>, <<"a","g","a","i","n">>,
    <<"f","u","r","t","h","e","r">>, <<"t","h","e","n">>,
    <<"o","n","c","e">>, <<"h","e","r","e">>, <<"t","h","e","r","e">>,
    <<"w","h","e","n">>, <<"w","h","e","r","e">>, <<"w","h","y">>,
    <<"h","o","w">>, <<"a","l","l">>, <<"a","n","y">>, <<"b","o","t","h">>,
    <<"e","a","c","h">>, <<"f","e","w">>, <<"m","o","r","e">>,
    <<"m","o","s","t">>, <<"o","t","h","e","r">>, <<"s","o","m","e">>,
    <<"s","u","c","h">>, <<"n","o">>, <<"n","o","r">>, <<"n","o","t">>,
    <<"o","n","l","y">>, <<"o","w","n">>, <<"s","a","m","e">>, <<"s","o">>,
    <<"t","h","a","n">>, <<"t","o","o">>, <<"v","e","r","y">>, <<"s">>,
    <<"t">>, <<"c","a","n">>, <<"w","i","l","l">>, <<"j","u","s","t">>,
    <<"d","o","n">>, <<"d","o","n","'","t">>, <<"s","h","o","u","l","d">>,
    <<"s","h","o","u","l","d","'","v","e">>, <<"n","o","w">>, <<"d">>,
    <<"l","l">>, <<"m">>, <<"o">>, <<"r","e">>, <<"v","e">>, <<"y">>,
    <<"a","i","n">>, <<"a","r","e","n">>, <<"a","r","e","n","'","t">>,
    <<"c","o","u","l","d","n">>, <<"c","o","u","l","d","n","'","t">>,
    <<"d","i","d","n">>, <<"d","i","d","n","'","t">>,
    <<"d","o","e","s","n">>, <<"d","o","e","s","n","'","t">>,
    <<"h","a","d","n">>, <<"h","a","d","n","'","t">>, <<"h","a","s","n">>,
    <<"h","a","s","n","'","t">>, <<"h","a","v","e","n">>,
    <<"h","a","v","e","n","'","t">>, <<"i","s","n">>,
    <<"i","s","n","'","t">>, <<"m","a">>, <<"m","i","g","h","t","n">>,
    <<"m","i","g","h","t","n","'","t">>, <<"m","u","s","t","n">>,
    <<"m","u","s","t","n","'","t">>, <<"n","e","e","d","n">>,
    <<"n","e","e","d","n","'","t">>, <<"s","h","a","n">>,
    <<"s","h","a","n","'","t">>, <<"s","h","o","u","l","d","n">>,
    <<"s","h","o","u","l","d","n","'","t">>, <<"w","a","s","n">>,
    <<"w","a","s","n","'","t">>, <<"w","e","r","e","n">>,
    <<"w","e","r","e","n","'","t">>, <<"w","o","n">>,
    <<"w","o","n","'","t">>, <<"w","o","u","l","d","n">>,
    <<"w","o","u","l","d","n","'","t">>}

\* regex \b at the position between s[p] and s[p + 1] (p in 0..Len(s))
IsWordAt(s, p) == p >= 1 /\ p <= Len(s) /\ IsWordChar(s[p])
Boundary(s, p) == IsWordAt(s, p) # IsWordAt(s, p + 1)

\* nltk word_tokenize on a text of [a-z0-9 +-#]: the Treebank rules that can
\* apply put spaces around '#' and around '--' and split the contractions
\* cannot, gimme, gonna, gotta, lemme (as whole words) and wanna (before
\* whitespace or the end); the result is split on whitespace
Contractions == {
    [w |-> <<"c","a","n","n","o","t">>, k |-> 3, ws |-> FALSE],
    [w |-> <<"g","i","m","m","e">>,     k |-> 3, ws |-> FALSE],
    [w |-> <<"g","o","n","n","a">>,     k |-> 3, ws |-> FALSE],
    [w |-> <<"g","o","t","t","a">>,     k |-> 3, ws |-> FALSE],
    [w |-> <<"l","e","m","m","e">>,     k |-> 3, ws |-> FALSE],
    [w |-> <<"w","a","n","n","a">>,     k |-> 3, ws |-> TRUE]}

ContractionAt(s, i, c) ==
    /\ StartsWithAt(s, i, c.w)
    /\ Boundary(s, i - 1)
    /\ LET e == i + Len(c.w) - 1
       IN  IF c.ws THEN e = Len(s) \/ IsSpace(s[e + 1]) ELSE Boundary(s, e)

RECURSIVE PadTokens(_, _)
PadTokens(s, i) ==
    IF i > Len(s) THEN <<>>
    ELSE IF s[i] = "#" THEN <<" ", "#", " ">> \o PadTokens(s, i + 1)
    ELSE IF StartsWithAt(s, i, <<"-", "-">>)
         THEN <<" ", "-", "-", " ">> \o PadTokens(s, i + 2)
    ELSE IF \E c \in Contractions : ContractionAt(s, i, c)
         THEN LET c == CHOOSE x \in Contractions : ContractionAt(s, i, x)
              IN  <<" ">> \o SubSeq(c.w, 1, c.k) \o <<" ">>
                  \o SubSeq(c.w, c.k + 1, Len(c.w)) \o <<" ">>
                  \o PadTokens(s, i + Len(c.w))
    ELSE <<s[i]>> \o PadTokens(s, i + 1)

word_tokenize(s) == Split(PadTokens(s, 1))

\* Step 6: [token for token in tokens if token not in stop_words and len(token) > 1]
FilterTokens(tokens) ==
    SelectSeq(tokens, LAMBDA t : t \notin StopWords /\ Len(t) > 1)

\* clean_text(text); ok = the try block (stopwords, word_tokenize) does not raise
\* None.lower() raises AttributeError; an exception a call raises is
\* written as the sequence holding its name
AttributeError == <<"AttributeError">>

\* variant: without the guard for an empty text
clean_text_unguarded(text, ok) ==
    IF text = None THEN AttributeError
    ELSE LET t5 == CollapseWhitespace(RemoveSpecial(RemoveEmails(RemoveUrls(Lower(text)))))
         IN  IF ok THEN Join(FilterTokens(word_tokenize(t5)))
             ELSE CollapseWhitespace(t5)

clean_text(text, ok) ==
    IF Falsy(text) THEN <<>>
    ELSE LET t5 == CollapseWhitespace(RemoveSpecial(RemoveEmails(RemoveUrls(Lower(text)))))
         IN  IF ok THEN Join(FilterTokens(word_tokenize(t5)))
             ELSE CollapseWhitespace(t5)

(***************************************************************************)
(* skill_extractor.analyze_resume_quality, get_quality_label               *)
(* Weights and scores are in tenths (2.0 is 20).                           *)
(***************************************************************************)
\* The patterns of QUALITY_CHECKS.  kind "lit" is \b lit opt? (\b if endb):
\* r'\bskills?\b' has lit "skill" and opt "s", r'\bcertif' has no closing \b.
QUALITY_CHECKS == <<
    [section |-> "Contact Information", weight |-> 20, patterns |-> <<
        [kind |-> "email", lit |-> <<>>, opt |-> <<>>, endb |-> FALSE],
        [kind |-> "phone", lit |-> <<>>, opt |-> <<>>, endb |-> FALSE]>>],
    [section |-> "Skills Section", weight |-> 20, patterns |-> <<
        [kind |-> "lit", lit |-> <<"s","k","i","l","l">>, opt |-> <<"s">>, endb |-> TRUE],
        [kind |-> "lit", lit |-> <<"t","e","c","h","n","i","c","a","l"," ","s","k","i","l","l","s">>, opt |-> <<>>, endb |-> TRUE],
        [kind |-> "lit", lit |-> <<"c","o","r","e"," ","c","o","m","p","e","t","e","n","c","i","e","s">>, opt |-> <<>>, endb |-> TRUE],
        [kind |-> "lit", lit |-> <<"p","r","o","f","i","c","i","e","n","c","i","e","s">>, opt |-> <<>>, endb |-> TRUE]>>],
    [section |-> "Education", weight |-> 20, patterns |-> <<
        [kind |-> "lit", lit |-> <<"e","d","u","c","a","t","i","o","n">>, opt |-> <<>>, endb |-> TRUE],
        [kind |-> "lit", lit |-> <<"d","e","g","r","e","e">>, opt |-> <<>>, endb |-> TRUE],
        [kind |-> "lit", lit |-> <<"b","a","c","h","e","l","o","r">>, opt |-> <<>>, endb |-> TRUE],
        [kind |-> "lit", lit |-> <<"m","a","s","t","e","r">>, opt |-> <<>>, endb |-> TRUE],
        [kind |-> "lit", lit |-> <<"p","h","d">>, opt |-> <<>>, endb |-> TRUE],
        [kind |-> "lit", lit |-> <<"u","n","i","v","e","r","s","i","t","y">>, opt |-> <<>>, endb |-> TRUE],
        [kind |-> "lit", lit |-> <<"c","o","l","l","e","g","e">>, opt |-> <<>>, endb |-> TRUE]>>],
    [section |-> "Work Experience", weight |-> 20, patterns |-> <<
        [kind |-> "lit", lit |-> <<"e","x","p","e","r","i","e","n","c","e">>, opt |-> <<>>, endb |-> TRUE],
        [kind |-> "lit", lit |-> <<"w","o","r","k"," ","h","i","s","t","o","r","y">>, opt |-> <<>>, endb |-> TRUE],
        [kind |-> "lit", lit |-> <<"e","m","p","l","o","y","m","e","n","t">>, opt |-> <<>>, endb |-> TRUE],
        [kind |-> "lit", lit |-> <<"j","o","b">>, opt |-> <<>>, endb |-> TRUE],
        [kind |-> "lit", lit |-> <<"i","n","t","e","r","n">>, opt |-> <<>>, endb |-> TRUE],
        [kind |-> "lit", lit |-> <<"p","o","s","i","t","i","o","n">>, opt |-> <<>>, endb |-> TRUE]>>],
    [section |-> "Summary / Objective", weight |-> 10, patterns |-> <<
        [kind |-> "lit", lit |-> <<"s","u","m","m","a","r","y">>, opt |-> <<>>, endb |-> TRUE],
        [kind |-> "lit", lit |-> <<"o","b","j","e","c","t","i","v","e">>, opt |-> <<>>, endb |-> TRUE],
        [kind |-> "lit", lit |-> <<"p","r","o","f","i","l","e">>, opt |-> <<>>, endb |-> TRUE],
        [kind |-> "lit", lit |-> <<"a","b","o","u","t"," ","m","e">>, opt |-> <<>>, endb |-> TRUE]>>],
    [section |-> "Projects / Certifications", weight |-> 10, patterns |-> <<
        [kind |-> "lit", lit |-> <<"p","r","o","j","e","c","t">>, opt |-> <<>>, endb |-> TRUE],
        [kind |-> "lit", lit |-> <<"c","e","r","t","i","f">>, opt |-> <<>>, endb |-> FALSE],
        [kind |-> "lit", lit |-> <<"a","c","h","i","e","v","e","m","e","n","t">>, opt |-> <<>>, endb |-> TRUE],
        [kind |-> "lit", lit |-> <<"a","w","a","r","d">>, opt |-> <<>>, endb |-> TRUE]>>]>>

\* r'[\w\.-]+@[\w\.-]+\.\w+'
IsMailChar(c) == IsWordChar(c) \/ c \in {".", "-"}

SearchEmail(s) ==
    \E k \in 2..Len(s) :
        /\ s[k] = "@"
        /\ IsMailChar(s[k - 1])
        /\ \E m \in (k + 2)..(Len(s) - 1) :
               /\ s[m] = "."
               /\ IsWordChar(s[m + 1])
               /\ \A x \in (k + 1)..(m - 1) : IsMailChar(s[x])

\* r'(\+?\d[\d\s\-().]{7,}\d)'
IsPhoneChar(c) == IsDigit(c) \/ IsSpace(c) \/ c \in {"-", "(", ")", "."}

SearchPhone(s) ==
    \E i \in 1..Len(s) : \E j \in (i + 8)..Len(s) :
        /\ IsDigit(s[i])
        /\ IsDigit(s[j])
        /\ \A x \in (i + 1)..(j - 1) : IsPhoneChar(s[x])

\* variant: the literal anywhere in the text, without word boundaries
SearchLitAnywhere(p, s) ==
    \E i \in 1..Len(s) : StartsWithAt(s, i, p.lit)

SearchLit(p, s) ==
    \E i \in 1..Len(s) :
        /\ StartsWithAt(s, i, p.lit)
        /\ Boundary(s, i - 1)
        /\ LET e == i + Len(p.lit) - 1
           IN  \/ /\ p.opt # <<>>
                  /\ StartsWithAt(s, e + 1, p.opt)
                  /\ p.endb => Boundary(s, e + Len(p.opt))
               \/ p.endb => Boundary(s, e)

\* re.search(pattern, text_lower)
Search(p, s) ==
    CASE p.kind = "email" -> SearchEmail(s)
      [] p.kind = "phone" -> SearchPhone(s)
      [] OTHER            -> SearchLit(p, s)

\* found = any(re.search(pattern, text_lower) for pattern in config['patterns'])
SectionFound(config, text_lower) ==
    \E k \in DOMAIN config.patterns : Search(config.patterns[k], text_lower)

\* variant: every section counts 1.0
RECURSIVE SumWeightsEqual(_, _)
SumWeightsEqual(checks, keep) ==
    IF checks = <<>> THEN 0
    ELSE (IF keep[1] THEN 10 ELSE 0) + SumWeightsEqual(Tail(checks), Tail(keep))

RECURSIVE SumWeights(_, _)
SumWeights(checks, keep) ==
    IF checks = <<>> THEN 0
    ELSE (IF keep[1] THEN checks[1].weight ELSE 0)
         + SumWeights(Tail(checks), Tail(keep))

\* round(x, 1) of the quotient num / den (both in tenths), in tenths
RoundTenths(num, den) == (2 * num * 100 + den) \div (2 * den)

\* variant: a feedback message that does not name the section
FeedbackEntryUnnamed(section) ==
    <<"Add a '", "", "' section to improve your resume score.">>

\* f"Add a '{section}' section to improve your resume score.", as its parts
FeedbackEntry(section) ==
    <<"Add a '", section, "' section to improve your resume score.">>

\* variant: a feedback entry for every section that was found
FeedbackForFound(checks, found) ==
    LET present == SelectSeq([k \in DOMAIN checks |-> k], LAMBDA k : found[k])
    IN  [m \in 1..Len(present) |-> FeedbackEntry(checks[present[m]].section)]

\* the feedback list after the loop: one entry for each section not found
Feedback(checks, found) ==
    LET missing == SelectSeq([k \in DOMAIN checks |-> k], LAMBDA k : ~found[k])
    IN  [m \in 1..Len(missing) |-> FeedbackEntry(checks[missing[m]].section)]

\* variant: without the guard for an empty text
analyze_resume_quality_unguarded(text) ==
    LET text_lower == Lower(text)
        n == Len(QUALITY_CHECKS)
        found == [k \in 1..n |-> SectionFound(QUALITY_CHECKS[k], text_lower)]
    IN  [score |-> RoundTenths(SumWeights(QUALITY_CHECKS, found),
                               SumWeights(QUALITY_CHECKS, [k \in 1..n |-> TRUE])),
         breakdown |-> [k \in 1..n |->
                           [section |-> QUALITY_CHECKS[k].section,
                            found   |-> found[k],
                            weight  |-> QUALITY_CHECKS[k].weight]],
         feedback |-> Feedback(QUALITY_CHECKS, found)]

analyze_resume_quality(text) ==
    IF Falsy(text)
    THEN [score |-> 0, breakdown |-> <<>>,
          feedback |-> <<"No text found in resume.">>]
    ELSE LET text_lower == Lower(text)
             n == Len(QUALITY_CHECKS)
             found == [k \in 1..n |-> SectionFound(QUALITY_CHECKS[k], text_lower)]
             total_weight == SumWeights(QUALITY_CHECKS, [k \in 1..n |-> TRUE])
             earned_score == SumWeights(QUALITY_CHECKS, found)
         IN  [score |-> RoundTenths(earned_score, total_weight),
              breakdown |-> [k \in 1..n |->
                                [section |-> QUALITY_CHECKS[k].section,
                                 found   |-> found[k],
                                 weight  |-> QUALITY_CHECKS[k].weight]],
              feedback |-> Feedback(QUALITY_CHECKS, found)]

\* the labels carry an emoji prefix that is written here as a word in
\* parentheses: "(star)" is U+1F31F, "(check)" U+2705, "(warning)" U+26A0
\* U+FE0F, "(cross)" U+274C
get_quality_label(score) ==
    IF score >= 80 THEN "(star) Excellent"
    ELSE IF score >= 60 THEN "(check) Good"
    ELSE IF score >= 40 THEN "(warning) Average"
    ELSE "(cross) Needs Work"

(***************************************************************************)
(* skill_extractor.extract_skills                                          *)
(***************************************************************************)
SKILL_CATEGORIES == <<
    [category |-> "Programming Languages", skills |-> <<
        <<"p","y","t","h","o","n">>,
        <<"j","a","v","a">>,
        <<"j","a","v","a","s","c","r","i","p","t">>,
        <<"t","y","p","e","s","c","r","i","p","t">>,
        <<"c","+","+">>,
        <<"c","#">>,
        <<"r">>,
        <<"g","o">>,
        <<"r","u","s","t">>,
        <<"s","c","a","l","a">>,
        <<"k","o","t","l","i","n">>,
        <<"s","w","i","f","t">>,
        <<"p","h","p">>,
        <<"r","u","b","y">>,
        <<"m","a","t","l","a","b">>>>],
    [category |-> "Web Development", skills |-> <<
        <<"h","t","m","l">>,
        <<"c","s","s">>,
        <<"r","e","a","c","t">>,
        <<"a","n","g","u","l","a","r">>,
        <<"v","u","e">>,
        <<"n","o","d","e">>,
        <<"d","j","a","n","g","o">>,
        <<"f","l","a","s","k">>,
        <<"f","a","s","t","a","p","i">>,
        <<"b","o","o","t","s","t","r","a","p">>,
        <<"t","a","i","l","w","i","n","d">>,
        <<"j","q","u","e","r","y">>,
        <<"r","e","s","t"," ","a","p","i">>,
        <<"g","r","a","p","h","q","l">>>>],
    [category |-> "Data Science & ML", skills |-> <<
        <<"m","a","c","h","i","n","e"," ","l","e","a","r","n","i","n","g">>,
        <<"d","e","e","p"," ","l","e","a","r","n","i","n","g">>,
        <<"n","l","p">>,
        <<"n","a","t","u","r","a","l"," ","l","a","n","g","u","a","g","e"," ","p","r","o","c","e","s","s","i","n","g">>,
        <<"t","e","n","s","o","r","f","l","o","w">>,
        <<"k","e","r","a","s">>,
        <<"p","y","t","o","r","c","h">>,
        <<"s","c","i","k","i","t","-","l","e","a","r","n">>,
        <<"s","k","l","e","a","r","n">>,
        <<"x","g","b","o","o","s","t">>,
        <<"p","a","n","d","a","s">>,
        <<"n","u","m","p","y">>,
        <<"s","c","i","p","y">>,
        <<"d","a","t","a"," ","s","c","i","e","n","c","e">>,
        <<"c","o","m","p","u","t","e","r"," ","v","i","s","i","o","n">>,
        <<"b","e","r","t">>,
        <<"t","r","a","n","s","f","o","r","m","e","r">>,
        <<"n","e","u","r","a","l"," ","n","e","t","w","o","r","k">>,
        <<"r","e","i","n","f","o","r","c","e","m","e","n","t"," ","l","e","a","r","n","i","n","g">>>>],
    [category |-> "Databases", skills |-> <<
        <<"s","q","l">>,
        <<"m","y","s","q","l">>,
        <<"p","o","s","t","g","r","e","s","q","l">>,
        <<"m","o","n","g","o","d","b">>,
        <<"r","e","d","i","s">>,
        <<"s","q","l","i","t","e">>,
        <<"o","r","a","c","l","e">>,
        <<"c","a","s","s","a","n","d","r","a">>,
        <<"e","l","a","s","t","i","c","s","e","a","r","c","h">>,
        <<"n","o","s","q","l">>,
        <<"f","i","r","e","b","a","s","e">>>>],
    [category |-> "Cloud & DevOps", skills |-> <<
        <<"a","w","s">>,
        <<"a","z","u","r","e">>,
        <<"g","c","p">>,
        <<"d","o","c","k","e","r">>,
        <<"k","u","b","e","r","n","e","t","e","s">>,
        <<"c","i","/","c","d">>,
        <<"j","e","n","k","i","n","s">>,
        <<"t","e","r","r","a","f","o","r","m">>,
        <<"a","n","s","i","b","l","e">>,
        <<"l","i","n","u","x">>,
        <<"g","i","t">>,
        <<"g","i","t","h","u","b">>,
        <<"g","i","t","l","a","b">>,
        <<"d","e","v","o","p","s">>>>],
    [category |-> "Data Analytics & BI", skills |-> <<
        <<"t","a","b","l","e","a","u">>,
        <<"p","o","w","e","r"," ","b","i">>,
        <<"e","x","c","e","l">>,
        <<"l","o","o","k","e","r">>,
        <<"d","a","t","a"," ","v","i","s","u","a","l","i","z","a","t","i","o","n">>,
        <<"m","a","t","p","l","o","t","l","i","b">>,
        <<"s","e","a","b","o","r","n">>,
        <<"p","l","o","t","l","y">>,
        <<"s","t","a","t","i","s","t","i","c","s">>,
        <<"d","a","t","a"," ","a","n","a","l","y","s","i","s">>>>],
    [category |-> "Soft Skills", skills |-> <<
        <<"c","o","m","m","u","n","i","c","a","t","i","o","n">>,
        <<"l","e","a","d","e","r","s","h","i","p">>,
        <<"t","e","a","m","w","o","r","k">>,
        <<"p","r","o","b","l","e","m"," ","s","o","l","v","i","n","g">>,
        <<"c","r","i","t","i","c","a","l"," ","t","h","i","n","k","i","n","g">>,
        <<"p","r","o","j","e","c","t"," ","m","a","n","a","g","e","m","e","n","t">>,
        <<"a","g","i","l","e">>,
        <<"s","c","r","u","m">>,
        <<"t","i","m","e"," ","m","a","n","a","g","e","m","e","n","t">>,
        <<"c","o","l","l","a","b","o","r","a","t","i","o","n">>>>]>>

RECURSIVE Flatten(_)
Flatten(seqs) == IF seqs = <<>> THEN <<>> ELSE Head(seqs) \o Flatten(Tail(seqs))

\* ALL_SKILLS = [skill for skills in SKILL_CATEGORIES.values() for skill in skills]
ALL_SKILLS ==
    Flatten([k \in DOMAIN SKILL_CATEGORIES |-> SKILL_CATEGORIES[k].skills])

\* str.upper() on one character
ToUpper(c) ==
    IF c \in Range(LowerLetters)
    THEN UpperLetters[CHOOSE i \in DOMAIN LowerLetters : LowerLetters[i] = c]
    ELSE c

\* str.title(): a letter that follows no letter is upper case, every other
\* letter is lower case
Title(s) ==
    [i \in DOMAIN s |->
        IF i = 1 \/ ~IsLetter(s[i - 1]) THEN ToUpper(s[i]) ELSE ToLower(s[i])]

\* ord() of the characters of the modelled texts
Ord(c) ==
    CASE c \in Range(LowerLetters) ->
             96 + (CHOOSE i \in DOMAIN LowerLetters : LowerLetters[i] = c)
      [] c \in Range(UpperLetters) ->
             64 + (CHOOSE i \in DOMAIN UpperLetters : UpperLetters[i] = c)
      [] c \in Digits ->
             48 + (CHOOSE d \in 0..9 : ToString(d) = c)
      [] c = "\t" -> 9
      [] c = "\n" -> 10
      [] c = " " -> 32
      [] c = "#" -> 35
      [] c = "(" -> 40
      [] c = ")" -> 41
      [] c = "+" -> 43
      [] c = "," -> 44
      [] c = "-" -> 45
      [] c = "." -> 46
      [] c = "/" -> 47
      [] c = ":" -> 58
      [] c = "@" -> 64
      [] c = "_" -> 95

\* a < b for two strings: by code point, a proper prefix first
RECURSIVE StrLess(_, _)
StrLess(a, b) ==
    IF b = <<>> THEN FALSE
    ELSE IF a = <<>> THEN TRUE
    ELSE IF Head(a) # Head(b) THEN Ord(Head(a)) < Ord(Head(b))
    ELSE StrLess(Tail(a), Tail(b))

\* sorted(set(...)) of a set of strings
RECURSIVE Sorted(_)
Sorted(S) ==
    IF S = {} THEN <<>>
    ELSE LET least == CHOOSE a \in S : \A b \in S \ {a} : StrLess(a, b)
         IN  <<least>> \o Sorted(S \ {least})

\* pattern = r'\b' + re.escape(skill) + r'\b'
SkillPattern(skill) ==
    [kind |-> "lit", lit |-> skill, opt |-> <<>>, endb |-> TRUE]

\* the loop over ALL_SKILLS: the title-cased skills whose pattern is found
FoundSkills(text_lower) ==
    SelectSeq([k \in DOMAIN ALL_SKILLS |->
                  IF Search(SkillPattern(ALL_SKILLS[k]), text_lower)
                  THEN Title(ALL_SKILLS[k]) ELSE <<>>],
              LAMBDA t : t # <<>>)

\* variant: the found skills in taxonomy order
extract_skills_unsorted(text) ==
    IF text = <<>> THEN <<>> ELSE FoundSkills(Lower(text))

extract_skills(text) ==
    IF Falsy(text) THEN <<>>
    ELSE Sorted(Range(FoundSkills(Lower(text))))

(***************************************************************************)
(* sklearn TfidfVectorizer(ngram_range=(1, 2), sublinear_tf=True, min_df=1,*)
(* max_features=...) as build_tfidf_matrix and compute_similarity use it.  *)
(* Weights are integers in tenths.  A row holds the unnormalised tf-idf    *)
(* weights; the L2 normalisation the vectorizer and cosine_similarity both *)
(* apply is the single division of Cosine.                                 *)
(***************************************************************************)
\* token_pattern r'(?u)\b\w\w+\b': the maximal runs of two or more word characters
RECURSIVE WordRunEnd(_, _)
WordRunEnd(s, i) ==
    IF i > Len(s) \/ ~IsWordChar(s[i]) THEN i - 1 ELSE WordRunEnd(s, i + 1)

RECURSIVE WordTokensFrom(_, _)
WordTokensFrom(s, i) ==
    IF i > Len(s) THEN <<>>
    ELSE IF ~IsWordChar(s[i]) THEN WordTokensFrom(s, i + 1)
    ELSE LET e == WordRunEnd(s, i)
         IN  (IF e > i THEN <<SubSeq(s, i, e)>> ELSE <<>>)
             \o WordTokensFrom(s, e + 1)

\* the analyzer: lowercase, tokenize, unigrams followed by bigrams
Analyze(doc) ==
    LET tokens == WordTokensFrom(Lower(doc), 1)
        bigrams == IF Len(tokens) < 2 THEN <<>>
                   ELSE [i \in 1..(Len(tokens) - 1) |->
                            tokens[i] \o <<" ">> \o tokens[i + 1]]
    IN  tokens \o bigrams

(***************************************************************************)
(* Inputs                                                                  *)
(***************************************************************************)
MaxResumes == 3

TextEmpty   == <<>>
TextStop    == <<"t","h","e"," ","r">>   \* "the r"
TextPySql   == <<"P","y","t","h","o","n"," ","S","Q","L">>   \* "Python SQL"
TextPyEdu   == <<"p","y","t","h","o","n"," ","e","d","u","c","a","t","i","o","n">>   \* "python education"
JdPySql     == <<"p","y","t","h","o","n"," ","s","q","l">>   \* "python sql"

ResumeTexts     == {TextEmpty, TextStop, TextPySql, TextPyEdu}
JobDescriptions == {TextEmpty, TextStop, JdPySql}

\* how the candidate names of a list repeat: all distinct, alternating, all equal
CandidateNames == <<"A", "B", "C", "D", "E", "F">>
NameSchemes    == {"distinct", "alternate", "same"}
NameOf(scheme, i) ==
    CASE scheme = "distinct"  -> CandidateNames[i]
      [] scheme = "alternate" -> CandidateNames[((i - 1) % 2) + 1]
      [] OTHER                -> CandidateNames[1]

ResumeLists ==
    UNION {{[i \in 1..n |-> [name |-> NameOf(scheme, i), text |-> texts[i]]] :
               texts \in [1..n -> ResumeTexts], scheme \in NameSchemes} :
           n \in 0..MaxResumes}

\* thresholds in units of 1e-5; the default is 0.90
DefaultThreshold == 90000
DefaultTopN      == 3
\* 0.20325 lies between a similarity the texts produce and its rounding
Thresholds == {0, 20325, DefaultThreshold, 100000}
TopNs      == (0 - 2)..(MaxResumes + 1)

(***************************************************************************)
(* The functions of a text are pure: their values on the texts of the      *)
(* model are tabulated once and looked up by the calls.                    *)
(***************************************************************************)
AllTexts == ResumeTexts \cup JobDescriptions

CleanTextTable == [t \in AllTexts |-> [ok \in BOOLEAN |-> clean_text(t, ok)]]
Cleaned(text, ok) ==
    IF text \in AllTexts THEN CleanTextTable[text][ok] ELSE clean_text(text, ok)

QualityTable == [t \in AllTexts |-> analyze_resume_quality(t)]
Quality(text) ==
    IF text \in AllTexts THEN QualityTable[text] ELSE analyze_resume_quality(text)

SkillsTable == [t \in AllTexts |-> extract_skills(t)]
Skills(text) ==
    IF text \in AllTexts THEN SkillsTable[text] ELSE extract_skills(text)

CleanedTexts == {CleanTextTable[t][ok] : t \in AllTexts, ok \in BOOLEAN}
AnalyzeTable == [d \in CleanedTexts |-> Analyze(d)]
Analyzed(doc) ==
    IF doc \in CleanedTexts THEN AnalyzeTable[doc] ELSE Analyze(doc)

Count(seq, x) == Cardinality({i \in DOMAIN seq : seq[i] = x})

\* 1000 * ln(k) for k = 1..10
LnMilli == <<0, 693, 1099, 1386, 1609, 1792, 1946, 2079, 2197, 2303>>

\* sublinear_tf: 1 + ln(tf), in thousandths
SublinearTf(tf) == 1000 + LnMilli[tf]

\* smooth idf: ln((1 + n) / (1 + df)) + 1, in thousandths
Idf(n, df) == LnMilli[1 + n] - LnMilli[1 + df] + 1000

\* tf-idf weight of a term in a document, in tenths
TfidfWeight(tf, n, df) ==
    IF tf = 0 THEN 0
    ELSE (SublinearTf(tf) * Idf(n, df) + 50000) \div 100000

RECURSIVE SumOver(_, _)
SumOver(S, f) ==
    IF S = {} THEN 0
    ELSE LET x == CHOOSE y \in S : TRUE
         IN  f[x] + SumOver(S \ {x}, f)

\* max_features: the vocabulary is cut to the max_features most frequent terms
LimitFeatures(vocabulary, total, max_features) ==
    IF Cardinality(vocabulary) <= max_features THEN vocabulary
    ELSE CHOOSE V \in SUBSET vocabulary :
             /\ Cardinality(V) = max_features
             /\ \A t \in V : \A u \in vocabulary \ V : total[t] >= total[u]

\* the terms of all documents, and each term's count over the corpus
Terms(analyzed) == UNION {Range(analyzed[d]) : d \in DOMAIN analyzed}

TotalCounts(analyzed, terms) ==
    [t \in terms |->
        SumOver(DOMAIN analyzed, [d \in DOMAIN analyzed |-> Count(analyzed[d], t)])]

\* variant: the document frequency counted over the first two documents only
DocumentFrequencyInPrefix(analyzed, t) ==
    Cardinality({d \in DOMAIN analyzed : d <= 2 /\ t \in Range(analyzed[d])})

DocumentFrequency(analyzed, t) ==
    Cardinality({d \in DOMAIN analyzed : t \in Range(analyzed[d])})

\* the tf-idf matrix over a fitted vocabulary
Transform(analyzed, vocabulary) ==
    [raised |-> FALSE,
     vocabulary |-> vocabulary,
     matrix |-> [d \in DOMAIN analyzed |-> [t \in vocabulary |->
                    TfidfWeight(Count(analyzed[d], t), Len(analyzed),
                                DocumentFrequency(analyzed, t))]]]

Fit(analyzed, terms, max_features) ==
    IF terms = {}
    THEN [raised |-> TRUE, vocabulary |-> {}, matrix |-> <<>>]
    ELSE Transform(analyzed,
                   LimitFeatures(terms, TotalCounts(analyzed, terms), max_features))

FitAnalyzed(analyzed, max_features) ==
    Fit(analyzed, Terms(analyzed), max_features)

\* vectorizer.fit_transform(documents): raises ValueError("empty vocabulary")
\* when no document holds a token
FitTransform(documents, max_features) ==
    FitAnalyzed([d \in DOMAIN documents |-> Analyzed(documents[d])], max_features)

\* variant: the vectorizer is fitted by the first call of a session and only
\* transforms afterwards
build_tfidf_matrix_fitted_once(documents) ==
    IF first_fitted = {} THEN FitTransform(documents, 8000)
    ELSE Transform([d \in DOMAIN documents |-> Analyzed(documents[d])], first_fitted)

\* a new TfidfVectorizer is constructed and fitted in every call
build_tfidf_matrix(documents) == FitTransform(documents, 8000)

(***************************************************************************)
(* sklearn cosine_similarity                                               *)
(***************************************************************************)
\* floor of the square root, by bisection
RECURSIVE SqrtBetween(_, _, _)
SqrtBetween(x, lo, hi) ==
    IF lo >= hi THEN lo
    ELSE LET mid == (lo + hi + 1) \div 2
         IN  IF mid * mid <= x THEN SqrtBetween(x, mid, hi)
             ELSE SqrtBetween(x, lo, mid - 1)

Isqrt(x) == SqrtBetween(x, 0, 46340)

Dot(a, b) == SumOver(DOMAIN a, [t \in DOMAIN a |-> a[t] * b[t]])

\* cosine of two rows in units of 1e-5; a row of zero norm is left as it is
\* by the normalisation, so its similarity to anything is 0
Divide(dot, norms) ==
    IF norms = 0 THEN 0 ELSE (dot * 100000) \div norms

\* variant: the dot product of rows that are not normalised
CosineUnnormalized(a, b) == Dot(a, b) * 100000

Cosine(a, b) == Divide(Dot(a, b), Isqrt(Dot(a, a) * Dot(b, b)))

\* variant: a row of zero norm is an arithmetic failure
cosine_similarity_zero_norm_raises(X, Y) ==
    IF \/ Len(X) = 0 \/ Len(Y) = 0
       \/ \E i \in 1..Len(X) : Dot(X[i], X[i]) = 0
       \/ \E j \in 1..Len(Y) : Dot(Y[j], Y[j]) = 0
    THEN [raised |-> TRUE, scores |-> <<>>]
    ELSE [raised |-> FALSE,
          scores |-> [i \in 1..Len(X) |-> [j \in 1..Len(Y) |-> Cosine(X[i], Y[j])]]]

\* cosine_similarity(X, Y): check_pairwise_arrays raises ValueError for an
\* array with 0 rows ("Found array with 0 sample(s)")
cosine_similarity(X, Y) ==
    IF Len(X) = 0 \/ Len(Y) = 0
    THEN [raised |-> TRUE, scores |-> <<>>]
    ELSE [raised |-> FALSE,
          scores |-> [i \in 1..Len(X) |-> [j \in 1..Len(Y) |-> Cosine(X[i], Y[j])]]]

\* compute_cosine_similarity(jd_vector, resume_vectors): first row of the matrix
FirstRow(sim) ==
    IF sim.raised THEN sim ELSE [raised |-> FALSE, scores |-> sim.scores[1]]

compute_cosine_similarity(jd_vector, resume_vectors) ==
    FirstRow(cosine_similarity(jd_vector, resume_vectors))

\* np.round(x, 4) and round(x, 4) of a value in units of 1e-5: units of 1e-4,
\* ties to even
Round4(x) ==
    LET q == x \div 10
        r == x % 10
    IN  IF r > 5 \/ (r = 5 /\ q % 2 = 1) THEN q + 1 ELSE q

(***************************************************************************)
(* ranking_model.rank_candidates                                           *)
(***************************************************************************)
\* variant: sorted by the similarity score alone
SortsBeforeScoreOnly(frame, j, i) ==
    \/ frame[j].SimilarityScore > frame[i].SimilarityScore
    \/ /\ frame[j].SimilarityScore = frame[i].SimilarityScore
       /\ j < i

\* variant: an unstable sort that leaves tied rows in reverse order
SortsBeforeTiesReversed(frame, j, i) ==
    \/ frame[j].SimilarityScore > frame[i].SimilarityScore
    \/ /\ frame[j].SimilarityScore = frame[i].SimilarityScore
       /\ frame[j].QualityScore > frame[i].QualityScore
    \/ /\ frame[j].SimilarityScore = frame[i].SimilarityScore
       /\ frame[j].QualityScore = frame[i].QualityScore
       /\ j > i

\* row j comes before row i in sort_values(by=['Similarity Score',
\* 'Quality Score'], ascending=[False, False]): pandas sorts several keys
\* with a stable lexsort, so rows equal on both keys keep their order
SortsBefore(frame, j, i) ==
    \/ frame[j].SimilarityScore > frame[i].SimilarityScore
    \/ /\ frame[j].SimilarityScore = frame[i].SimilarityScore
       /\ frame[j].QualityScore > frame[i].QualityScore
    \/ /\ frame[j].SimilarityScore = frame[i].SimilarityScore
       /\ frame[j].QualityScore = frame[i].QualityScore
       /\ j < i

\* the index of the sorted frame: sort_values(...).index
sort_values(frame) ==
    LET position == [i \in DOMAIN frame |->
                        1 + Cardinality({j \in DOMAIN frame : SortsBefore(frame, j, i)})]
    IN  [k \in DOMAIN frame |-> CHOOSE i \in DOMAIN frame : position[i] = k]

\* variant: ranks counted from 0
InsertRankFromZero(frame, index) ==
    [k \in DOMAIN index |-> [Rank |-> k - 1] @@ frame[index[k]]]

\* reset_index(drop=True) and insert(0, 'Rank', range(1, len + 1))
InsertRank(frame, index) ==
    [k \in DOMAIN index |-> [Rank |-> k] @@ frame[index[k]]]

Raised == [raised |-> TRUE, index |-> <<>>, df |-> <<>>]

\* Steps 1-3: the corpus, position 1 the job description, then the resumes
Corpus(jd, rs, ok) ==
    <<Cleaned(jd, ok)>> \o [i \in DOMAIN rs |-> Cleaned(rs[i].text, ok)]

\* Steps 9-10
SortAndRank(frame, index) ==
    [raised |-> FALSE, index |-> index, df |-> InsertRank(frame, index)]

SortAndRankSorted(frame) == SortAndRank(frame, sort_values(frame))

\* ', '.join(skills)
RECURSIVE JoinComma(_)
JoinComma(skills) ==
    IF skills = <<>> THEN <<>>
    ELSE IF Len(skills) = 1 THEN Head(skills)
    ELSE Head(skills) \o <<",", " ">> \o JoinComma(Tail(skills))

NoneDetected == <<"N","o","n","e"," ","d","e","t","e","c","t","e","d">>

\* ', '.join(skills) if skills else 'None detected'
SkillsStr(skills) ==
    IF skills = <<>> THEN NoneDetected ELSE JoinComma(skills)

\* variant: the skills are looked for in the cleaned text of the resume
RawTextCleaned(resume, ok) == Cleaned(resume.text, ok)

\* raw_resume_texts.append(resume['text']): the text that skills and
\* quality are computed from
RawText(resume, ok) == resume.text

\* Steps 6-8: one row per resume; skills and quality come from the raw text
ResultRow(resume, score, skills, quality) ==
    [CandidateName   |-> resume.name,
     SimilarityScore |-> Round4(score),
     ExtractedSkills |-> SkillsStr(skills),
     SkillCount      |-> Len(skills),
     QualityScore    |-> quality.score,
     QualityLabel    |-> get_quality_label(quality.score),
     skills_list     |-> skills,
     quality_detail  |-> quality]

ResultsFrame(rs, similarity, ok) ==
    IF similarity.raised THEN Raised
    ELSE SortAndRankSorted(
             [i \in DOMAIN rs |->
                 ResultRow(rs[i], similarity.scores[i],
                           Skills(RawText(rs[i], ok)),
                           Quality(RawText(rs[i], ok)))])

\* Steps 4-5
ScoreResumes(rs, tfidf, ok) ==
    IF tfidf.raised THEN Raised
    ELSE ResultsFrame(rs,
             compute_cosine_similarity(SubSeq(tfidf.matrix, 1, 1),
                                       SubSeq(tfidf.matrix, 2, Len(tfidf.matrix))),
             ok)

rank_candidates(jd, rs, ok) ==
    ScoreResumes(rs, build_tfidf_matrix(Corpus(jd, rs, ok)), ok)

(***************************************************************************)
(* similarity_model.compute_similarity                                     *)
(***************************************************************************)
\* sort_values(by='Similarity Score', ascending=False) sorts one key with
\* numpy's quicksort, which promises no order among equal scores: every
\* index that lists the scores in descending order is a possible outcome
SortedIndexes(frame) ==
    {index \in [DOMAIN frame -> DOMAIN frame] :
        /\ \A a, b \in DOMAIN frame : a # b => index[a] # index[b]
        /\ \A a, b \in DOMAIN frame :
               a < b => frame[index[a]].SimilarityScore
                            >= frame[index[b]].SimilarityScore}

\* Steps 6-7: the frame before sorting
SimilarityRows(rs, similarity) ==
    IF similarity.raised THEN [raised |-> TRUE, frame |-> <<>>]
    ELSE [raised |-> FALSE,
          frame |-> [i \in DOMAIN rs |->
              [CandidateName   |-> rs[i].name,
               SimilarityScore |-> Round4(similarity.scores[1][i])]]]

SimilarityScores(rs, tfidf) ==
    IF tfidf.raised THEN [raised |-> TRUE, frame |-> <<>>]
    ELSE SimilarityRows(rs,
             cosine_similarity(SubSeq(tfidf.matrix, 1, 1),
                               SubSeq(tfidf.matrix, 2, Len(tfidf.matrix))))

similarity_frame(jd, rs, ok) ==
    SimilarityScores(rs, FitTransform(Corpus(jd, rs, ok), 5000))

(***************************************************************************)
(* ranking_model.detect_duplicates, get_top_recommendations                *)
(***************************************************************************)
\* variant: the inner loop starts at 0, so every ordered pair is compared
RECURSIVE DuplicatePairsAllOrdered(_, _, _, _, _)
DuplicatePairsAllOrdered(names, sim_matrix, th, i, j) ==
    LET n == Len(names)
    IN  IF i > n THEN <<>>
        ELSE IF j > n THEN DuplicatePairsAllOrdered(names, sim_matrix, th, i + 1, 1)
        ELSE (IF Round4(sim_matrix[i][j]) * 10 >= th
              THEN <<[candidate_a |-> names[i],
                      candidate_b |-> names[j],
                      similarity  |-> Round4(sim_matrix[i][j])]>>
              ELSE <<>>)
             \o DuplicatePairsAllOrdered(names, sim_matrix, th, i, j + 1)

\* variant: sim_score > threshold
RECURSIVE DuplicatePairsStrict(_, _, _, _, _)
DuplicatePairsStrict(names, sim_matrix, th, i, j) ==
    LET n == Len(names)
    IN  IF i > n THEN <<>>
        ELSE IF j > n THEN DuplicatePairsStrict(names, sim_matrix, th, i + 1, i + 2)
        ELSE (IF Round4(sim_matrix[i][j]) * 10 > th
              THEN <<[candidate_a |-> names[i],
                      candidate_b |-> names[j],
                      similarity  |-> Round4(sim_matrix[i][j])]>>
              ELSE <<>>)
             \o DuplicatePairsStrict(names, sim_matrix, th, i, j + 1)

\* the two nested loops from pair (i, j) on; th is in units of 1e-5
RECURSIVE DuplicatePairs(_, _, _, _, _)
DuplicatePairs(names, sim_matrix, th, i, j) ==
    LET n == Len(names)
    IN  IF i > n THEN <<>>
        ELSE IF j > n THEN DuplicatePairs(names, sim_matrix, th, i + 1, i + 2)
        ELSE LET sim_score == Round4(sim_matrix[i][j])
             IN  (IF sim_score * 10 >= th
                  THEN <<[candidate_a |-> names[i],
                          candidate_b |-> names[j],
                          similarity  |-> sim_score]>>
                  ELSE <<>>)
                 \o DuplicatePairs(names, sim_matrix, th, i, j + 1)

DuplicatesFrom(names, sim, th) ==
    IF sim.raised THEN [raised |-> TRUE, value |-> <<>>]
    ELSE [raised |-> FALSE, value |-> DuplicatePairs(names, sim.scores, th, 1, 2)]

PairwiseSimilarity(names, tfidf, th) ==
    IF tfidf.raised THEN [raised |-> TRUE, value |-> <<>>]
    ELSE DuplicatesFrom(names, cosine_similarity(tfidf.matrix, tfidf.matrix), th)

\* variant: without the guard for fewer than two resumes
detect_duplicates_unguarded(rs, th, ok) ==
    PairwiseSimilarity(
        [i \in DOMAIN rs |-> rs[i].name],
        build_tfidf_matrix([i \in DOMAIN rs |-> Cleaned(rs[i].text, ok)]),
        th)

detect_duplicates(rs, th, ok) ==
    IF Len(rs) < 2 THEN [raised |-> FALSE, value |-> <<>>]
    ELSE PairwiseSimilarity(
             [i \in DOMAIN rs |-> rs[i].name],
             build_tfidf_matrix([i \in DOMAIN rs |-> Cleaned(rs[i].text, ok)]),
             th)

\* DataFrame.head(n): the first n rows, or for n < 0 all but the last -n rows
head(df, n) ==
    IF n >= 0
    THEN SubSeq(df, 1, IF n < Len(df) THEN n ELSE Len(df))
    ELSE SubSeq(df, 1, IF Len(df) + n > 0 THEN Len(df) + n ELSE 0)

get_top_recommendations(df, n) == head(df, n)

(***************************************************************************)
(* The calls                                                               *)
(***************************************************************************)
Init ==
    /\ job_description \in JobDescriptions
    /\ resumes \in ResumeLists
    /\ nltk_ok \in BOOLEAN
    /\ pc = "start"
    /\ threshold = DefaultThreshold
    /\ top_n = DefaultTopN
    /\ sorted_index = <<>>
    /\ results_df = <<>>
    /\ duplicates = <<>>
    /\ recommendations = <<>>
    /\ resume_text = <<>>
    /\ found_skills = <<>>
    /\ quality_result = <<>>
    /\ quality_score = 0
    /\ quality_label = ""
    /\ cleaned_text = <<>>
    /\ uploaded_files = <<>>
    /\ calls = <<>>
    /\ first_fitted = {}

RankCandidates ==
    /\ pc = "start"
    /\ LET r == rank_candidates(job_description, resumes, nltk_ok)
       IN  /\ pc' = IF r.raised THEN "rank_raised" ELSE "ranked"
           /\ sorted_index' = r.index
           /\ results_df' = r.df
    /\ UNCHANGED <<job_description, resumes, nltk_ok, threshold, top_n,
                   duplicates, recommendations>>
    /\ UNCHANGED text_vars
    /\ UNCHANGED flow_vars

ComputeSimilarity ==
    /\ pc = "start"
    /\ LET f == similarity_frame(job_description, resumes, nltk_ok)
       IN  IF f.raised
           THEN /\ pc' = "similarity_raised"
                /\ UNCHANGED <<sorted_index, results_df>>
           ELSE /\ pc' = "similarity"
                /\ sorted_index' \in SortedIndexes(f.frame)
                /\ results_df' = InsertRank(f.frame, sorted_index')
    /\ UNCHANGED <<job_description, resumes, nltk_ok, threshold, top_n,
                   duplicates, recommendations>>
    /\ UNCHANGED text_vars
    /\ UNCHANGED flow_vars

DetectDuplicates ==
    /\ pc = "start"
    /\ \E th \in Thresholds :
        LET r == detect_duplicates(resumes, th, nltk_ok)
        IN  /\ threshold' = th
            /\ pc' = IF r.raised THEN "detect_raised" ELSE "detected"
            /\ duplicates' = r.value
    /\ UNCHANGED <<job_description, resumes, nltk_ok, top_n, sorted_index,
                   results_df, recommendations>>
    /\ UNCHANGED text_vars
    /\ UNCHANGED flow_vars

GetTopRecommendations ==
    /\ pc = "ranked"
    /\ \E n \in TopNs :
        /\ top_n' = n
        /\ recommendations' = get_top_recommendations(results_df, n)
    /\ pc' = "recommended"
    /\ UNCHANGED <<job_description, resumes, nltk_ok, threshold, sorted_index,
                   results_df, duplicates>>
    /\ UNCHANGED text_vars
    /\ UNCHANGED flow_vars

Next ==
    \/ RankCandidates
    \/ ComputeSimilarity
    \/ DetectDuplicates
    \/ GetTopRecommendations

Spec == Init /\ [][Next]_vars

(***************************************************************************)
(* Calls of extract_skills, analyze_resume_quality and get_quality_label   *)
(***************************************************************************)
MaxWords == 2
ScoreMargin == 10

FragCpp == <<"c","+","+">>
FragCSharp == <<"C","#">>
FragCiCd == <<"c","i","/","c","d">>
FragCpp11 == <<"c","+","+","1","1">>
FragFor == <<"f","o","r">>
FragGoogle == <<"g","o","o","g","l","e">>
FragJavascript == <<"j","a","v","a","s","c","r","i","p","t">>
FragR == <<"r">>
SkillsLine == <<"S","k","i","l","l","s",":"," ","P","y","t","h","o","n",","," ","R","e","a","c","t",","," ","A","W","S",","," ","D","o","c","k","e","r">>
FragEducation == <<"e","d","u","c","a","t","i","o","n">>
FragEmail == <<"a","@","b",".","c","o">>
FragPhone == <<"5","5","5","-","1","2","3","-","4","5","6","7">>
FragCertified == <<"c","e","r","t","i","f","i","e","d">>
FullResume == <<"a","@","b",".","c","o"," ","s","k","i","l","l","s"," ","e","d","u","c","a","t","i","o","n"," ","e","x","p","e","r","i","e","n","c","e"," ","s","u","m","m","a","r","y"," ","p","r","o","j","e","c","t">>

OtherSections == <<"s","k","i","l","l","s"," ","s","u","m","m","a","r","y"," ","p","r","o","j","e","c","t">>

Fragments == {FragCpp, FragCSharp, FragCiCd, FragCpp11, FragFor, FragGoogle, FragJavascript,
              FragR, SkillsLine, FragEducation, FragEmail, FragPhone, FragCertified, FullResume,
              OtherSections}

\* the texts of at most MaxWords fragments separated by a space
Texts ==
    {Join(w) : w \in UNION {[1..n -> Fragments] : n \in 0..MaxWords}}

\* scores in tenths, from below 0.0 to above 10.0
Scores == (0 - ScoreMargin)..(100 + ScoreMargin)

TextInit ==
    /\ \/ /\ pc = "text"
          /\ resume_text \in Texts \cup {None}
          /\ nltk_ok \in BOOLEAN
          /\ quality_score = 0
       \/ /\ pc = "score"
          /\ resume_text = <<>>
          /\ nltk_ok = TRUE
          /\ quality_score \in Scores
    /\ found_skills = <<>>
    /\ quality_result = <<>>
    /\ quality_label = ""
    /\ cleaned_text = <<>>
    /\ uploaded_files = <<>>
    /\ calls = <<>>
    /\ first_fitted = {}
    /\ job_description = <<>>
    /\ resumes = <<>>
    /\ threshold = DefaultThreshold
    /\ top_n = DefaultTopN
    /\ sorted_index = <<>>
    /\ results_df = <<>>
    /\ duplicates = <<>>
    /\ recommendations = <<>>

ExtractSkills ==
    /\ pc = "text"
    /\ found_skills' = extract_skills(resume_text)
    /\ pc' = "skills"
    /\ UNCHANGED <<resume_text, quality_result, quality_score, quality_label,
                   cleaned_text>>
    /\ UNCHANGED rank_vars
    /\ UNCHANGED flow_vars

AnalyzeResumeQuality ==
    /\ pc = "text"
    /\ quality_result' = analyze_resume_quality(resume_text)
    /\ pc' = "analyzed"
    /\ UNCHANGED <<resume_text, found_skills, quality_score, quality_label,
                   cleaned_text>>
    /\ UNCHANGED rank_vars
    /\ UNCHANGED flow_vars

GetQualityLabel ==
    /\ pc = "score"
    /\ quality_label' = get_quality_label(quality_score)
    /\ pc' = "labelled"
    /\ UNCHANGED <<resume_text, found_skills, quality_result, quality_score,
                   cleaned_text>>
    /\ UNCHANGED rank_vars
    /\ UNCHANGED flow_vars

CleanText ==
    /\ pc = "text"
    /\ cleaned_text' = clean_text(resume_text, nltk_ok)
    /\ pc' = "cleaned"
    /\ UNCHANGED <<resume_text, found_skills, quality_result, quality_score,
                   quality_label>>
    /\ UNCHANGED rank_vars
    /\ UNCHANGED flow_vars

TextNext ==
    \/ ExtractSkills
    \/ AnalyzeResumeQuality
    \/ GetQualityLabel
    \/ CleanText

TextSpec == TextInit /\ [][TextNext]_vars

(***************************************************************************)
(* Calls of rank_candidates and detect_duplicates on lists of distinctly   *)
(* named resumes, one list for every multiset of texts: the texts stand in *)
(* the order of ResumeTextOrder, and the properties reorder the list.      *)
(***************************************************************************)
ResumeTextOrder == <<TextEmpty, TextStop, TextPySql, TextPyEdu>>

OrderedLists ==
    UNION {{[i \in 1..n |-> [name |-> CandidateNames[i],
                              text |-> ResumeTextOrder[c[i]]]] :
               c \in {f \in [1..n -> DOMAIN ResumeTextOrder] :
                          \A i, j \in 1..n : i < j => f[i] <= f[j]}} :
           n \in 0..MaxResumes}

OrderInit ==
    /\ job_description \in JobDescriptions
    /\ resumes \in OrderedLists
    /\ nltk_ok \in BOOLEAN
    /\ pc = "start"
    /\ threshold = DefaultThreshold
    /\ top_n = DefaultTopN
    /\ sorted_index = <<>>
    /\ results_df = <<>>
    /\ duplicates = <<>>
    /\ recommendations = <<>>
    /\ resume_text = <<>>
    /\ found_skills = <<>>
    /\ quality_result = <<>>
    /\ quality_score = 0
    /\ quality_label = ""
    /\ cleaned_text = <<>>
    /\ uploaded_files = <<>>
    /\ calls = <<>>
    /\ first_fitted = {}

OrderNext ==
    \/ RankCandidates
    \/ DetectDuplicates

OrderSpec == OrderInit /\ [][OrderNext]_vars

(***************************************************************************)
(* Properties                                                              *)
(***************************************************************************)
NumResumes == Len(resumes)

\* the text has a term of the vectorizer's vocabulary after clean_text
HasTerms(text) == Analyzed(Cleaned(text, nltk_ok)) # <<>>

RankReturned == pc \in {"ranked", "recommended"}
RankCalled   == pc \in {"ranked", "recommended", "rank_raised"}
DetectCalled == pc \in {"detected", "detect_raised"}

SameKeys(r1, r2) ==
    /\ r1.SimilarityScore = r2.SimilarityScore
    /\ r1.QualityScore = r2.QualityScore

\* C1: a ranking returned by rank_candidates or compute_similarity has one
\* row per input resume, and the Rank of row k is k: the ranks are 1..N in
\* row order, also among tied scores.
C1_RanksAreOneToN ==
    (RankReturned \/ pc = "similarity") =>
        /\ Len(results_df) = NumResumes
        /\ \A k \in 1..Len(results_df) : results_df[k].Rank = k

\* three resumes ranked, two of them tied on both keys
C1_Witness ==
    /\ pc = "ranked"
    /\ NumResumes = 3
    /\ SameKeys(results_df[1], results_df[2])
    /\ results_df[3].SimilarityScore < results_df[2].SimilarityScore

\* C2: in the output of rank_candidates every earlier row has a greater
\* similarity score than a later row, or the same similarity score and a
\* quality score that is greater or equal.
C2_SortedByScoreThenQuality ==
    RankReturned =>
        \A i, j \in 1..Len(results_df) :
            i < j =>
                \/ results_df[i].SimilarityScore > results_df[j].SimilarityScore
                \/ /\ results_df[i].SimilarityScore = results_df[j].SimilarityScore
                   /\ results_df[i].QualityScore >= results_df[j].QualityScore

\* the quality score decided the order of two rows, against the input order
C2_Witness ==
    /\ pc = "ranked"
    /\ NumResumes = 3
    /\ \E i, j \in 1..3 :
        /\ i < j
        /\ results_df[i].SimilarityScore = results_df[j].SimilarityScore
        /\ results_df[i].QualityScore > results_df[j].QualityScore
        /\ sorted_index[i] > sorted_index[j]
    /\ \E i, j \in 1..3 :
        results_df[i].SimilarityScore > results_df[j].SimilarityScore

\* C3: rows that are equal in similarity score and quality score stand in
\* the order of their resumes in the input list (row k is the row of resume
\* sorted_index[k]).
C3_TiesKeepInputOrder ==
    RankReturned =>
        /\ \A k \in 1..Len(results_df) :
               /\ sorted_index[k] \in 1..NumResumes
               /\ results_df[k].CandidateName = resumes[sorted_index[k]].name
               /\ results_df[k].quality_detail = Quality(resumes[sorted_index[k]].text)
        /\ \A a, b \in 1..Len(results_df) :
               (a < b /\ SameKeys(results_df[a], results_df[b]))
                   => sorted_index[a] < sorted_index[b]

\* two tied resumes with different names, behind a resume that came later
C3_Witness ==
    /\ pc = "ranked"
    /\ NumResumes = 3
    /\ sorted_index = <<3, 1, 2>>
    /\ SameKeys(results_df[2], results_df[3])
    /\ results_df[2].CandidateName # results_df[3].CandidateName

\* C4 (as claimed): rank_candidates on an empty resume list returns an empty
\* result and does not raise.
C4_EmptyListReturnsEmpty ==
    (RankCalled /\ NumResumes = 0) => (pc # "rank_raised" /\ results_df = <<>>)

\* C5: with a job description that has no vocabulary term and a non-empty
\* list in which some resume has one, rank_candidates does not raise and
\* every similarity score is 0; and in any returned ranking the row of a
\* resume without vocabulary terms has similarity score 0.
C5_ZeroVectorScoresZero ==
    /\ (RankCalled /\ NumResumes >= 1 /\ ~HasTerms(job_description)
            /\ \E i \in 1..NumResumes : HasTerms(resumes[i].text))
        => /\ pc # "rank_raised"
           /\ \A k \in 1..Len(results_df) : results_df[k].SimilarityScore = 0
    /\ RankReturned =>
           \A k \in 1..Len(results_df) :
               ~HasTerms(resumes[sorted_index[k]].text)
                   => results_df[k].SimilarityScore = 0

\* an empty job description ranked against two resumes that have terms
C5_Witness ==
    /\ pc = "ranked"
    /\ job_description = <<>>
    /\ NumResumes = 2
    /\ \A i \in 1..2 : HasTerms(resumes[i].text)
    /\ \A k \in 1..2 : results_df[k].SimilarityScore = 0

\* C6 (as claimed): when every document of the corpus normalizes to the
\* empty string, rank_candidates and detect_duplicates do not raise.
C6_EmptyCorpusDoesNotRaise ==
    /\ (RankCalled /\ NumResumes >= 1
            /\ Cleaned(job_description, nltk_ok) = <<>>
            /\ \A i \in 1..NumResumes : Cleaned(resumes[i].text, nltk_ok) = <<>>)
        => pc # "rank_raised"
    /\ (DetectCalled /\ NumResumes >= 2
            /\ \A i \in 1..NumResumes : Cleaned(resumes[i].text, nltk_ok) = <<>>)
        => pc # "detect_raised"

Min(a, b) == IF a < b THEN a ELSE b
Max(a, b) == IF a > b THEN a ELSE b

\* C7 (as claimed): get_top_recommendations returns the first
\* min(max(top_n, 0), len(ranked_results)) rows.
C7_TopNClamped ==
    pc = "recommended" =>
        recommendations = SubSeq(results_df, 1, Min(Max(top_n, 0), Len(results_df)))

Names == [i \in 1..NumResumes |-> resumes[i].name]
NamesDistinct == \A i, j \in 1..NumResumes : i # j => Names[i] # Names[j]
PositionPairs == {p \in (1..NumResumes) \X (1..NumResumes) : p[1] < p[2]}

\* the cosine similarity of every two resumes in the corpus of the resumes
\* alone, before rounding (units of 1e-5)
ResumeVectors ==
    build_tfidf_matrix([i \in 1..NumResumes |-> Cleaned(resumes[i].text, nltk_ok)]).matrix
PairCosine(vectors, p) == Cosine(vectors[p[1]], vectors[p[2]])

\* a record for the resumes at positions p[1] < p[2]
Reported(vectors, p) ==
    \E k \in 1..Len(duplicates) :
        duplicates[k] = [candidate_a |-> Names[p[1]],
                         candidate_b |-> Names[p[2]],
                         similarity  |-> Round4(PairCosine(vectors, p))]

NoSelfPair ==
    \A k \in 1..Len(duplicates) :
        duplicates[k].candidate_a # duplicates[k].candidate_b

NoPairTwice ==
    \A k, l \in 1..Len(duplicates) :
        k # l =>
            /\ ~(/\ duplicates[k].candidate_a = duplicates[l].candidate_b
                 /\ duplicates[k].candidate_b = duplicates[l].candidate_a)
            /\ ~(/\ duplicates[k].candidate_a = duplicates[l].candidate_a
                 /\ duplicates[k].candidate_b = duplicates[l].candidate_b)

\* exactly one record names the resumes at positions p[1], p[2], in either
\* direction
ExactlyOneRecord(p) ==
    Cardinality({k \in 1..Len(duplicates) :
        {duplicates[k].candidate_a, duplicates[k].candidate_b}
            = {Names[p[1]], Names[p[2]]}}) = 1

\* C8 (as claimed): whether or not the identifiers are unique, for every two
\* resumes whose cosine similarity is >= threshold exactly one record names
\* them, never one in each direction, and no record pairs a candidate
\* identifier with itself.
C8_PairUniqueByName ==
    (pc = "detected" /\ NumResumes >= 2) =>
        /\ NoSelfPair
        /\ NoPairTwice
        /\ \A p \in PositionPairs :
               PairCosine(ResumeVectors, p) >= threshold => ExactlyOneRecord(p)

\* C8 (amended): detect_duplicates emits at most one record for each pair of
\* positions i < j and none for i = j; when the identifiers are pairwise
\* distinct, no record pairs a candidate with itself, no two candidates are
\* reported twice or in both directions, and every two resumes whose
\* similarity rounded to 4 decimals is >= threshold are named by exactly
\* one record.
C8_PairUniqueByPosition ==
    (pc = "detected" /\ NumResumes >= 2) =>
        /\ Len(duplicates) <= Cardinality(PositionPairs)
        /\ NamesDistinct =>
               /\ NoSelfPair
               /\ NoPairTwice
               /\ \A p \in PositionPairs :
                      Round4(PairCosine(ResumeVectors, p)) * 10 >= threshold
                          => ExactlyOneRecord(p)

\* all three pairs of three distinctly named resumes are reported
C8_Witness ==
    /\ pc = "detected"
    /\ NumResumes = 3
    /\ NamesDistinct
    /\ Len(duplicates) = 3

\* C9 (as claimed): the pair at positions i < j is reported if and only if
\* the cosine similarity of the two vectors is >= threshold.
C9_ReportedIffCosineAtLeast ==
    (pc = "detected" /\ NumResumes >= 2) =>
        \A p \in PositionPairs :
            Reported(ResumeVectors, p) <=> PairCosine(ResumeVectors, p) >= threshold

\* C9 (amended): the pair at positions i < j is reported if and only if its
\* cosine similarity rounded to 4 decimals, the similarity the record
\* holds, is >= threshold; there is one record for each such pair.
C9_ReportedIffRoundedAtLeast ==
    (pc = "detected" /\ NumResumes >= 2) =>
        /\ \A p \in PositionPairs :
               Reported(ResumeVectors, p)
                   <=> Round4(PairCosine(ResumeVectors, p)) * 10 >= threshold
        /\ Len(duplicates) =
               Cardinality({p \in PositionPairs :
                   Round4(PairCosine(ResumeVectors, p)) * 10 >= threshold})

\* of three resumes one pair is reported at exactly the threshold, the
\* other pairs are below it
C9_Witness ==
    /\ pc = "detected"
    /\ NumResumes = 3
    /\ threshold = 100000
    /\ Len(duplicates) = 1
    /\ duplicates[1].similarity = 10000

\* C10: detect_duplicates on a list of zero or one resume returns the empty
\* list and does not raise, whatever the threshold.
C10_FewerThanTwoIsEmpty ==
    (DetectCalled /\ NumResumes < 2) => (pc = "detected" /\ duplicates = <<>>)

\* one resume whose text has no vocabulary term, threshold 0
C10_Witness ==
    /\ pc = "detected"
    /\ NumResumes = 1
    /\ ~HasTerms(resumes[1].text)
    /\ threshold = 0
    /\ duplicates = <<>>

\* C11 (as claimed): when detect_duplicates returns at threshold 0.90, every
\* two resumes with identical text and different candidate names have a
\* record with similarity 1.0.
C11_IdenticalTextsReported ==
    (pc = "detected" /\ threshold = DefaultThreshold) =>
        \A p \in PositionPairs :
            (/\ resumes[p[1]].text = resumes[p[2]].text
             /\ Names[p[1]] # Names[p[2]])
                => \E k \in 1..Len(duplicates) :
                       duplicates[k] = [candidate_a |-> Names[p[1]],
                                        candidate_b |-> Names[p[2]],
                                        similarity  |-> 10000]

\* the largest floating-point overshoot past 1.0 considered (units of 1e-5)
MaxOvershoot == 4

\* C12: the Similarity Score of every ranked row and the similarity of every
\* duplicate record lie in [0, 1] (0..10000 in units of 1e-4), and a cosine
\* that overshoots 1.0 by a rounding error is recorded as 1.0.
C12_ScoresInUnitInterval ==
    /\ pc \in {"ranked", "similarity", "recommended"} =>
           \A k \in 1..Len(results_df) :
               results_df[k].SimilarityScore \in 0..10000
    /\ pc = "recommended" =>
           \A k \in 1..Len(recommendations) :
               recommendations[k].SimilarityScore \in 0..10000
    /\ pc = "detected" =>
           \A k \in 1..Len(duplicates) : duplicates[k].similarity \in 0..10000
    /\ \A e \in 0..MaxOvershoot : Round4(100000 + e) = 10000

\* a ranking with one row at 1.0 and one strictly between 0 and 1
C12_Witness ==
    /\ pc = "ranked"
    /\ \E k \in 1..Len(results_df) : results_df[k].SimilarityScore = 10000
    /\ \E k \in 1..Len(results_df) :
           /\ results_df[k].SimilarityScore > 0
           /\ results_df[k].SimilarityScore < 10000

\* the keyword stands in s as a whole token: some occurrence is neither
\* preceded nor followed by a letter, digit or underscore
StandsAsToken(skill, s) ==
    \E i \in 1..Len(s) :
        /\ StartsWithAt(s, i, skill)
        /\ i = 1 \/ ~IsWordChar(s[i - 1])
        /\ LET e == i + Len(skill) - 1
           IN  e = Len(s) \/ ~IsWordChar(s[e + 1])

\* C13 (as claimed): every taxonomy keyword that stands in the text as a
\* whole token, in any letter case, is in the result of extract_skills,
\* "c++", "c#" and "ci/cd" included.
C13_WholeTokenIsFound ==
    pc = "skills" =>
        \A k \in DOMAIN ALL_SKILLS :
            StandsAsToken(ALL_SKILLS[k], Lower(resume_text))
                => Title(ALL_SKILLS[k]) \in Range(found_skills)

\* C14 (as claimed): a skill is in the result of extract_skills only if some
\* occurrence of its keyword is neither preceded nor followed by a letter,
\* digit or underscore.
C14_FoundOnlyAsWholeToken ==
    pc = "skills" =>
        \A k \in DOMAIN ALL_SKILLS :
            Title(ALL_SKILLS[k]) \in Range(found_skills)
                => StandsAsToken(ALL_SKILLS[k], Lower(resume_text))

C16_SkillsLineScenario ==
    (pc = "skills" /\ resume_text = SkillsLine) =>
        found_skills = <<<<"A","w","s">>, <<"D","o","c","k","e","r">>, <<"P","y","t","h","o","n">>, <<"R","e","a","c","t">>>>

C16_Witness ==
    /\ pc = "skills"
    /\ resume_text = SkillsLine
    /\ Len(found_skills) = 4

\* the summed weight of the sections a breakdown marks as found
RECURSIVE EarnedWeight(_)
EarnedWeight(breakdown) ==
    IF breakdown = <<>> THEN 0
    ELSE (IF Head(breakdown).found THEN Head(breakdown).weight ELSE 0)
         + EarnedWeight(Tail(breakdown))

Analyzed6 == pc = "analyzed" /\ ~Falsy(resume_text)

\* C17: for a non-empty text the score is the summed weight of the sections
\* with a matching pattern, out of a total of 10.0 with weights 2,2,2,2,1,1
\* (in tenths the score equals the earned weight); it lies in [0, 10], is
\* 10.0 exactly when all six sections are found and 0.0 exactly when none is.
C17_ScoreIsEarnedWeight ==
    Analyzed6 =>
        LET b == quality_result.breakdown
        IN  /\ [k \in DOMAIN b |-> b[k].weight] = <<20, 20, 20, 20, 10, 10>>
            /\ \A k \in DOMAIN b :
                   b[k].found = SectionFound(QUALITY_CHECKS[k], Lower(resume_text))
            /\ quality_result.score = EarnedWeight(b)
            /\ quality_result.score \in 0..100
            /\ quality_result.score = 100 <=> \A k \in DOMAIN b : b[k].found
            /\ quality_result.score = 0 <=> \A k \in DOMAIN b : ~b[k].found

\* a section of weight 2.0 and one of weight 1.0 are found: score 3.0
C17_Witness ==
    /\ Analyzed6
    /\ quality_result.score = 30
    /\ quality_result.breakdown[3].found
    /\ quality_result.breakdown[6].found

\* C18: for a non-empty text the breakdown has an entry for each of the six
\* sections, the feedback has exactly one entry for each section not found
\* and none for a section found, so it is empty exactly when the score is
\* 10.0.
C18_FeedbackForMissingSections ==
    Analyzed6 =>
        LET b == quality_result.breakdown
            f == quality_result.feedback
        IN  /\ [k \in DOMAIN b |-> b[k].section] =
                   <<"Contact Information", "Skills Section", "Education",
                     "Work Experience", "Summary / Objective",
                     "Projects / Certifications">>
            /\ \A k \in DOMAIN b :
                   Cardinality({m \in DOMAIN f : f[m] = FeedbackEntry(b[k].section)})
                       = IF b[k].found THEN 0 ELSE 1
            /\ Len(f) = Cardinality({k \in DOMAIN b : ~b[k].found})
            /\ f = <<>> <=> quality_result.score = 100

\* only the Education section is found: five feedback entries
C18_Witness ==
    /\ Analyzed6
    /\ Len(quality_result.feedback) = 5
    /\ quality_result.breakdown[3].found

C20_PlainLabels ==
    pc = "labelled" =>
        quality_label = IF quality_score >= 80 THEN "Excellent"
                        ELSE IF quality_score >= 60 THEN "Good"
                        ELSE IF quality_score >= 40 THEN "Average"
                        ELSE "Needs Work"

CoreSections == {"Contact Information", "Education", "Work Experience"}

\* the text matches no pattern of the Contact Information, Education and
\* Work Experience sections
LacksCoreSections ==
    \A k \in DOMAIN QUALITY_CHECKS :
        QUALITY_CHECKS[k].section \in CoreSections
            => ~SectionFound(QUALITY_CHECKS[k], Lower(resume_text))

CoreSectionsInFeedback ==
    \A section \in CoreSections :
        \E m \in DOMAIN quality_result.feedback :
            quality_result.feedback[m] =
                <<"Add a '", section, "' section to improve your resume score.">>

\* C21 (as claimed): a non-empty text that matches none of the Contact
\* Information, Education and Work Experience patterns scores strictly
\* below 4.0 and its feedback lists all three sections.
C21_LowQualityBelowFour ==
    (Analyzed6 /\ LacksCoreSections) =>
        /\ quality_result.score < 40
        /\ CoreSectionsInFeedback

\* C21 (amended): such a text scores at most 4.0, exactly 4.0 when the
\* Skills Section, Summary / Objective and Projects / Certifications
\* sections are all found and strictly below otherwise, and its feedback
\* lists all three missing sections.
C21_LowQualityAtMostFour ==
    (Analyzed6 /\ LacksCoreSections) =>
        /\ quality_result.score <= 40
        /\ quality_result.score = 40 <=>
               \A k \in DOMAIN QUALITY_CHECKS :
                   QUALITY_CHECKS[k].section \notin CoreSections
                       => quality_result.breakdown[k].found
        /\ CoreSectionsInFeedback

\* the three other sections are found and the three core sections are not
C21_Witness ==
    /\ Analyzed6
    /\ LacksCoreSections
    /\ quality_result.score = 40
    /\ Len(quality_result.feedback) = 3

\* C23: clean_text returns the empty string for an empty text and for None.
C23_CleanTextEmptyInput ==
    (pc = "cleaned" /\ Falsy(resume_text)) => cleaned_text = <<>>

C23_Witness ==
    /\ pc = "cleaned"
    /\ resume_text = None
    /\ cleaned_text = <<>>

\* the lowercased text without URLs, e-mail addresses and special characters,
\* whitespace collapsed and trimmed
Stripped(text) ==
    CollapseWhitespace(RemoveSpecial(RemoveEmails(RemoveUrls(Lower(text)))))

\* C24 (as claimed): on the normal path clean_text returns the single-space
\* join, in order, of exactly the whitespace-separated tokens of the
\* stripped text that are no stopwords and are longer than 1, so that "c++"
\* and "c#" stay single tokens.
C24_WhitespaceTokens ==
    (pc = "cleaned" /\ nltk_ok /\ ~Falsy(resume_text)) =>
        cleaned_text =
            Join(SelectSeq(Split(Stripped(resume_text)),
                           LAMBDA t : t \notin StopWords /\ Len(t) > 1))

\* C25 (as claimed): when the stopword set or the tokenizer fails, clean_text
\* returns the stripped text with no token removed, and the enclosing
\* rank_candidates / detect_duplicates call completes.
C25_FallbackCallCompletes ==
    ~nltk_ok =>
        /\ (pc = "cleaned" /\ ~Falsy(resume_text))
               => cleaned_text = Stripped(resume_text)
        /\ RankCalled => RankReturned
        /\ DetectCalled => pc = "detected"

\* the tf-idf rows of the corpus of the call: the job description, then the
\* resumes in input order
CorpusVectors ==
    build_tfidf_matrix(Corpus(job_description, resumes, nltk_ok)).matrix

RowOfResume(row, resume, vectors, i) ==
    /\ row.CandidateName = resume.name
    /\ row.SimilarityScore = Round4(Cosine(vectors[1], vectors[i + 1]))
    /\ row.skills_list = Skills(resume.text)
    /\ row.ExtractedSkills =
           (IF Skills(resume.text) = <<>> THEN NoneDetected
            ELSE JoinComma(Skills(resume.text)))
    /\ row.SkillCount = Len(row.skills_list)
    /\ row.QualityScore = Quality(resume.text).score
    /\ row.QualityLabel = get_quality_label(row.QualityScore)

\* C28: the rows of the table rank_candidates returns correspond one to one
\* to the input resumes, also after the sort, and every field of a row comes
\* from the row's own resume: its name, the similarity of its normalized
\* text to the job description rounded to 4 decimals, the skills and the
\* quality of its raw text, Skill Count the length of the skill list and
\* Quality Label the label of the Quality Score.
C28_RowsFromOwnResume ==
    RankReturned =>
        /\ Len(results_df) = NumResumes
        /\ Len(sorted_index) = NumResumes
        /\ \A i \in 1..NumResumes : \E k \in 1..NumResumes : sorted_index[k] = i
        /\ \A k \in 1..NumResumes :
               RowOfResume(results_df[k], resumes[sorted_index[k]],
                           CorpusVectors, sorted_index[k])

\* three resumes that the sort reordered: one without a skill, one with two
C28_Witness ==
    /\ pc = "ranked"
    /\ NumResumes = 3
    /\ NamesDistinct
    /\ sorted_index[1] # 1
    /\ \E k \in 1..3 : /\ results_df[k].SkillCount = 0
                        /\ results_df[k].ExtractedSkills = NoneDetected
    /\ \E k \in 1..3 : /\ results_df[k].SkillCount = 2
                        /\ results_df[k].SimilarityScore > 0
    /\ \E k \in 1..3 : /\ results_df[k].skills_list = <<<<"R">>>>
                        /\ resumes[sorted_index[k]].text = TextStop

\* the resumes in the order perm: position k holds resume perm[k]
Permuted(perm) == [k \in 1..NumResumes |-> resumes[perm[k]]]

\* the similarity score of every input position, read off a returned table
ScoreByPosition(r) ==
    [i \in DOMAIN r.index |->
        r.df[CHOOSE k \in DOMAIN r.index : r.index[k] = i].SimilarityScore]

\* the reported pairs without their direction
UnorderedPairs(records) ==
    {[pair |-> {records[k].candidate_a, records[k].candidate_b},
      similarity |-> records[k].similarity] : k \in DOMAIN records}

SameScoresPermuted(perm) ==
    LET r == rank_candidates(job_description, Permuted(perm), nltk_ok)
    IN  /\ ~r.raised
        /\ \A k \in 1..NumResumes :
               ScoreByPosition(r)[k]
                   = ScoreByPosition([index |-> sorted_index, df |-> results_df])[perm[k]]

SamePairsPermuted(perm) ==
    LET r == detect_duplicates(Permuted(perm), threshold, nltk_ok)
    IN  /\ ~r.raised
        /\ UnorderedPairs(r.value) = UnorderedPairs(duplicates)
        /\ Len(r.value) = Len(duplicates)

\* C26: the order of the resumes in the input list changes no candidate's
\* similarity score from rank_candidates, and detect_duplicates reports the
\* same unordered pairs with the same similarities for every order.
C26_OrderIndependent ==
    /\ pc = "ranked" =>
           \A perm \in Permutations(1..NumResumes) : SameScoresPermuted(perm)
    /\ pc = "detected" =>
           \A perm \in Permutations(1..NumResumes) : SamePairsPermuted(perm)

\* three resumes with three different scores, ranked against their input order
C26_Witness ==
    /\ pc = "ranked"
    /\ NumResumes = 3
    /\ results_df[1].SimilarityScore > results_df[2].SimilarityScore
    /\ results_df[2].SimilarityScore > results_df[3].SimilarityScore
    /\ sorted_index = <<2, 3, 1>>

\* three resumes of which exactly one pair is reported
C26_WitnessPairs ==
    /\ pc = "detected"
    /\ NumResumes = 3
    /\ Len(duplicates) = 1
    /\ duplicates[1].similarity > 0

(***************************************************************************)
(* app.py: the analyze flow, from the click on the button to the           *)
(* recommendations, one step per statement that validates or calls.        *)
(***************************************************************************)
MaxUploads == 3

TextBlank == <<" ", "\n">>

\* the text each uploaded file yields in parse_resume ("" for a file type
\* that is not supported or a file without text)
UploadTexts == {TextEmpty, TextBlank, TextStop, TextPySql}

UploadLists ==
    UNION {{[i \in 1..n |-> [name |-> CandidateNames[i], text |-> texts[i]]] :
               texts \in [1..n -> UploadTexts]} :
           n \in 0..MaxUploads}

AppJobDescriptions == {TextEmpty, TextBlank, TextStop, JdPySql}

\* the slider: 0.70 to 1.00, default 0.90
SliderValues == {70000, DefaultThreshold, 100000}

AppTopN == 3

\* variant: every uploaded file becomes a resume
parse_all_resumes_unfiltered(files) ==
    [i \in DOMAIN files |-> [name |-> files[i].name, text |-> files[i].text]]

\* parse_all_resumes: the files whose extracted text is not blank, in order
parse_all_resumes(files) ==
    SelectSeq([i \in DOMAIN files |-> [name |-> files[i].name, text |-> files[i].text]],
              LAMBDA r : Strip(r.text) # <<>>)

AppInit ==
    /\ job_description \in AppJobDescriptions
    /\ uploaded_files \in UploadLists
    /\ threshold \in SliderValues
    /\ nltk_ok \in BOOLEAN
    /\ pc = "clicked"
    /\ calls = <<>>
    /\ resumes = <<>>
    /\ top_n = DefaultTopN
    /\ sorted_index = <<>>
    /\ results_df = <<>>
    /\ duplicates = <<>>
    /\ recommendations = <<>>
    /\ resume_text = <<>>
    /\ found_skills = <<>>
    /\ quality_result = <<>>
    /\ quality_score = 0
    /\ quality_label = ""
    /\ cleaned_text = <<>>
    /\ first_fitted = {}

\* if not job_description.strip(): st.stop()
ValidateJobDescription ==
    /\ pc = "clicked"
    /\ pc' = IF Strip(job_description) = <<>> THEN "stopped_job_description"
             ELSE "job_description_ok"
    /\ UNCHANGED <<job_description, resumes, nltk_ok, threshold, top_n,
                   sorted_index, results_df, duplicates, recommendations>>
    /\ UNCHANGED text_vars
    /\ UNCHANGED flow_vars

\* if not uploaded_files: st.stop()
ValidateUploads ==
    /\ pc = "job_description_ok"
    /\ pc' = IF uploaded_files = <<>> THEN "stopped_uploads" ELSE "uploads_ok"
    /\ UNCHANGED <<job_description, resumes, nltk_ok, threshold, top_n,
                   sorted_index, results_df, duplicates, recommendations>>
    /\ UNCHANGED text_vars
    /\ UNCHANGED flow_vars

\* resumes = parse_all_resumes(uploaded_files); if not resumes: st.stop()
ParseResumes ==
    /\ pc = "uploads_ok"
    /\ resumes' = parse_all_resumes(uploaded_files)
    /\ calls' = Append(calls, "parse_all_resumes")
    /\ pc' = IF resumes' = <<>> THEN "stopped_parse" ELSE "parsed"
    /\ UNCHANGED <<job_description, nltk_ok, threshold, top_n,
                   sorted_index, results_df, duplicates, recommendations>>
    /\ UNCHANGED text_vars
    /\ UNCHANGED <<uploaded_files, first_fitted>>

\* results_df = rank_candidates(job_description, resumes); an exception ends
\* the run of the script
AppRankCandidates ==
    /\ pc = "parsed"
    /\ calls' = Append(calls, "rank_candidates")
    /\ LET r == rank_candidates(job_description, resumes, nltk_ok)
       IN  /\ pc' = IF r.raised THEN "app_rank_raised" ELSE "app_ranked"
           /\ sorted_index' = r.index
           /\ results_df' = r.df
    /\ UNCHANGED <<job_description, resumes, nltk_ok, threshold, top_n,
                   duplicates, recommendations>>
    /\ UNCHANGED text_vars
    /\ UNCHANGED <<uploaded_files, first_fitted>>

\* duplicates = detect_duplicates(resumes, threshold=dup_threshold)
AppDetectDuplicates ==
    /\ pc = "app_ranked"
    /\ calls' = Append(calls, "detect_duplicates")
    /\ LET r == detect_duplicates(resumes, threshold, nltk_ok)
       IN  /\ pc' = IF r.raised THEN "app_detect_raised" ELSE "app_detected"
           /\ duplicates' = r.value
    /\ UNCHANGED <<job_description, resumes, nltk_ok, threshold, top_n,
                   sorted_index, results_df, recommendations>>
    /\ UNCHANGED text_vars
    /\ UNCHANGED <<uploaded_files, first_fitted>>

\* recommendations = get_top_recommendations(results_df,
\*                                           top_n=min(3, len(results_df)))
AppGetTopRecommendations ==
    /\ pc = "app_detected"
    /\ calls' = Append(calls, "get_top_recommendations")
    /\ top_n' = Min(AppTopN, Len(results_df))
    /\ recommendations' = get_top_recommendations(results_df, top_n')
    /\ pc' = "app_done"
    /\ UNCHANGED <<job_description, resumes, nltk_ok, threshold,
                   sorted_index, results_df, duplicates>>
    /\ UNCHANGED text_vars
    /\ UNCHANGED <<uploaded_files, first_fitted>>

AppNext ==
    \/ ValidateJobDescription
    \/ ValidateUploads
    \/ ParseResumes
    \/ AppRankCandidates
    \/ AppDetectDuplicates
    \/ AppGetTopRecommendations

AppSpec == AppInit /\ [][AppNext]_vars

Called(f) == \E k \in DOMAIN calls : calls[k] = f

\* the uploaded files whose text is not blank, in upload order
RECURSIVE NonBlankFiles(_)
NonBlankFiles(files) ==
    IF files = <<>> THEN <<>>
    ELSE (IF \E i \in DOMAIN Head(files).text : ~IsSpace(Head(files).text[i])
          THEN <<Head(files)>> ELSE <<>>)
         \o NonBlankFiles(Tail(files))

FlowOrder ==
    <<"parse_all_resumes", "rank_candidates", "detect_duplicates",
      "get_top_recommendations">>

\* C27: in the analyze flow rank_candidates is called only after the three
\* checks passed in order (job description not blank, a file uploaded,
\* parse_all_resumes returned a resume; it keeps in upload order exactly the
\* files whose text is not blank); a failed check stops the flow before any
\* call of rank_candidates, detect_duplicates or get_top_recommendations;
\* detect_duplicates and get_top_recommendations (top_n = min(3, rows) >= 1)
\* run only after rank_candidates returned.
C27_AnalyzeFlowOrder ==
    /\ calls = SubSeq(FlowOrder, 1, Len(calls))
    /\ Called("parse_all_resumes") =>
           /\ Strip(job_description) # <<>>
           /\ uploaded_files # <<>>
           /\ resumes = NonBlankFiles(uploaded_files)
    /\ Called("rank_candidates") => resumes # <<>>
    /\ pc = "stopped_job_description" => Strip(job_description) = <<>>
    /\ pc = "stopped_uploads" =>
           (Strip(job_description) # <<>> /\ uploaded_files = <<>>)
    /\ pc = "stopped_parse" => NonBlankFiles(uploaded_files) = <<>>
    /\ pc \in {"stopped_job_description", "stopped_uploads", "stopped_parse"} =>
           /\ ~Called("rank_candidates")
           /\ ~Called("detect_duplicates")
           /\ ~Called("get_top_recommendations")
    /\ (Strip(job_description) = <<>> \/ NonBlankFiles(uploaded_files) = <<>>) =>
           ~Called("rank_candidates")
    /\ Called("detect_duplicates") =>
           (pc # "app_rank_raised" /\ Len(results_df) = Len(resumes))
    /\ Called("get_top_recommendations") =>
           /\ top_n = Min(3, Len(results_df))
           /\ top_n >= 1
           /\ recommendations = SubSeq(results_df, 1, top_n)

\* the flow ran to the end on three files of which one was blank
C27_Witness ==
    /\ pc = "app_done"
    /\ calls = FlowOrder
    /\ Len(uploaded_files) = 3
    /\ Len(resumes) = 2
    /\ uploaded_files[1].text = TextBlank
    /\ top_n = 2
    /\ Len(recommendations) = 2

(***************************************************************************)
(* A session: calls of rank_candidates, detect_duplicates, extract_skills  *)
(* and analyze_resume_quality one after another in one process, each with  *)
(* arguments of its own.  The variables hold the arguments and the value   *)
(* of the latest call only.                                                *)
(***************************************************************************)
MaxSessionResumes == 2

SessionResumeTexts == {TextPySql, TextPyEdu}
SessionJobDescriptions == {TextStop, JdPySql}
SessionThresholds == {0, DefaultThreshold}
SessionTexts == {TextEmpty, TextStop, TextPySql, SkillsLine}

SessionLists ==
    UNION {{[i \in 1..n |-> [name |-> CandidateNames[i], text |-> texts[i]]] :
               texts \in [1..n -> SessionResumeTexts]} :
           n \in 0..MaxSessionResumes}

\* the vocabulary the first fitting call of the session leaves behind
FirstFitted(documents) ==
    IF first_fitted # {} THEN first_fitted
    ELSE build_tfidf_matrix(documents).vocabulary

SessionRankCandidates ==
    /\ \E jd \in SessionJobDescriptions, rs \in SessionLists :
        LET r == rank_candidates(jd, rs, nltk_ok)
        IN  /\ job_description' = jd
            /\ resumes' = rs
            /\ pc' = IF r.raised THEN "rank_raised" ELSE "ranked"
            /\ sorted_index' = r.index
            /\ results_df' = r.df
            /\ first_fitted' = FirstFitted(Corpus(jd, rs, nltk_ok))
    /\ threshold' = DefaultThreshold
    /\ duplicates' = <<>>
    /\ resume_text' = <<>>
    /\ found_skills' = <<>>
    /\ quality_result' = <<>>
    /\ UNCHANGED <<nltk_ok, top_n, recommendations, quality_score,
                   quality_label, cleaned_text, uploaded_files, calls>>

SessionDetectDuplicates ==
    /\ \E rs \in SessionLists, th \in SessionThresholds :
        LET r == detect_duplicates(rs, th, nltk_ok)
        IN  /\ resumes' = rs
            /\ threshold' = th
            /\ pc' = IF r.raised THEN "detect_raised" ELSE "detected"
            /\ duplicates' = r.value
            /\ first_fitted' =
                   IF Len(rs) < 2 THEN first_fitted
                   ELSE FirstFitted([i \in DOMAIN rs |-> Cleaned(rs[i].text, nltk_ok)])
    /\ job_description' = <<>>
    /\ sorted_index' = <<>>
    /\ results_df' = <<>>
    /\ resume_text' = <<>>
    /\ found_skills' = <<>>
    /\ quality_result' = <<>>
    /\ UNCHANGED <<nltk_ok, top_n, recommendations, quality_score,
                   quality_label, cleaned_text, uploaded_files, calls>>

SessionExtractSkills ==
    /\ \E t \in SessionTexts :
        /\ resume_text' = t
        /\ found_skills' = extract_skills(t)
    /\ pc' = "skills"
    /\ job_description' = <<>>
    /\ resumes' = <<>>
    /\ threshold' = DefaultThreshold
    /\ sorted_index' = <<>>
    /\ results_df' = <<>>
    /\ duplicates' = <<>>
    /\ quality_result' = <<>>
    /\ UNCHANGED <<nltk_ok, top_n, recommendations, quality_score,
                   quality_label, cleaned_text, uploaded_files, calls,
                   first_fitted>>

SessionAnalyzeResumeQuality ==
    /\ \E t \in SessionTexts :
        /\ resume_text' = t
        /\ quality_result' = analyze_resume_quality(t)
    /\ pc' = "analyzed"
    /\ job_description' = <<>>
    /\ resumes' = <<>>
    /\ threshold' = DefaultThreshold
    /\ sorted_index' = <<>>
    /\ results_df' = <<>>
    /\ duplicates' = <<>>
    /\ found_skills' = <<>>
    /\ UNCHANGED <<nltk_ok, top_n, recommendations, quality_score,
                   quality_label, cleaned_text, uploaded_files, calls,
                   first_fitted>>

SessionInit ==
    /\ nltk_ok \in BOOLEAN
    /\ pc = "start"
    /\ job_description = <<>>
    /\ resumes = <<>>
    /\ threshold = DefaultThreshold
    /\ top_n = DefaultTopN
    /\ sorted_index = <<>>
    /\ results_df = <<>>
    /\ duplicates = <<>>
    /\ recommendations = <<>>
    /\ resume_text = <<>>
    /\ found_skills = <<>>
    /\ quality_result = <<>>
    /\ quality_score = 0
    /\ quality_label = ""
    /\ cleaned_text = <<>>
    /\ uploaded_files = <<>>
    /\ calls = <<>>
    /\ first_fitted = {}

SessionNext ==
    \/ SessionRankCandidates
    \/ SessionDetectDuplicates
    \/ SessionExtractSkills
    \/ SessionAnalyzeResumeQuality

SessionSpec == SessionInit /\ [][SessionNext]_vars

\* the call as the first call of a process makes it: on a vectorizer fitted
\* to the corpus of the call
RankedFirst ==
    ScoreResumes(resumes,
                 FitTransform(Corpus(job_description, resumes, nltk_ok), 8000),
                 nltk_ok)

DetectedFirst ==
    IF NumResumes < 2 THEN [raised |-> FALSE, value |-> <<>>]
    ELSE PairwiseSimilarity(
             Names,
             FitTransform([i \in 1..NumResumes |-> Cleaned(resumes[i].text, nltk_ok)],
                          8000),
             threshold)

====
